---- MODULE Spec2Model ----
(***************************************************************************)
(* A model of gmodel.cpp: the entity graph (Object / Use), the closure     *)
(* traversal, duplication, the extrusion engine and boundary collection /  *)
(* welding.  An entity reference (ObjPtr) is an index into the sequence    *)
(* objs; entities are never removed from it, so an index stays valid.      *)
(***************************************************************************)
EXTENDS Integers, Sequences, FiniteSets, TLC

VARIABLES
  objs,     \* the heap: objs[p] is the Object that ObjPtr p points to
  next_id,  \* the static id counter
  last      \* the most recent call: its name, arguments, outcome and pre-state

vars == <<objs, next_id, last>>

----------------------------------------------------------------------------
(* Kinds, in the order of the type tables.                                 *)
POINT == 0
LINE == 1
ARC == 2
ELLIPSE == 3
SPLINE == 4
PLANE == 5
RULED == 6
VOLUME == 7
LOOP == 8
SHELL == 9
GROUP == 10

FORWARD == 0
REVERSE == 1

(* The idle value of Object::scratch.                                      *)
UNSET == -1

(* default_size, in tenths.                                                *)
default_size == 1

type_dims(t) ==
  CASE t = POINT -> 0
    [] t \in {LINE, ARC, ELLIPSE, SPLINE} -> 1
    [] t \in {PLANE, RULED} -> 2
    [] t = VOLUME -> 3
    [] OTHER -> -1

is_entity(t) == t <= VOLUME

is_face(t) == t = PLANE \/ t = RULED

is_boundary(t) == t = LOOP \/ t = SHELL

get_boundary_type(cell_type) ==
  CASE type_dims(cell_type) = 3 -> SHELL
    [] type_dims(cell_type) = 2 -> LOOP
    [] OTHER -> -1

(* dir ^ dir and !dir on the two orientations.                             *)
Xor(a, b) == IF a = b THEN FORWARD ELSE REVERSE

Not(a) == IF a = FORWARD THEN REVERSE ELSE FORWARD

----------------------------------------------------------------------------
(* A world is the heap together with the id counter; every constructor     *)
(* takes a world and returns the world after it.  The entity a constructor *)
(* has just made is the last one of the heap.                              *)
World(os, nid) == [objs |-> os, next_id |-> nid]

Top(w) == Len(w.objs)

(* TLC evaluates the arguments of an operator when they are first read.   *)
(* An operator that stands for several statements of the source starts    *)
(* by reading the world it is given, so that the statements before it are *)
(* evaluated before its own, in the order of the source.  The condition   *)
(* holds of every world: next_id starts at 0 and is only incremented.     *)
IsWorld(w) == w.next_id >= 0

NoVec == <<>>

Object(type, id) ==
  [type |-> type, id |-> id, scratch |-> UNSET, used |-> <<>>,
   helpers |-> <<>>, embedded |-> <<>>, pos |-> NoVec, size |-> 0]

new_object(w, type) ==
  World(Append(w.objs, Object(type, w.next_id)), w.next_id + 1)

Use(dir, obj) == [dir |-> dir, obj |-> obj]

add_use(w, by, dir, of) ==
  World([w.objs EXCEPT ![by].used = Append(@, Use(dir, of))], w.next_id)

add_helper(w, to, h) ==
  World([w.objs EXCEPT ![to].helpers = Append(@, h)], w.next_id)

embed(w, into, embedded) ==
  World([w.objs EXCEPT ![into].embedded = Append(@, embedded)], w.next_id)

get_objs_used(os, user) == [i \in 1..Len(os[user].used) |-> os[user].used[i].obj]

SetPoint(w1, v, size) ==
  World([w1.objs EXCEPT ![Top(w1)].pos = v, ![Top(w1)].size = size], w1.next_id)

new_point3(w, v, size) == SetPoint(new_object(w, POINT), v, size)

new_point2(w, v) == new_point3(w, v, default_size)

new_line(w) == new_object(w, LINE)

(* add_use / add_helper by the entity made last.                           *)
add_use_top(w, dir, of) == add_use(w, Top(w), dir, of)

add_helper_top(w, h) == add_helper(w, Top(w), h)

new_line2(w, start, end) ==
  CASE IsWorld(w) ->
      add_use_top(add_use_top(new_line(w), FORWARD, start), FORWARD, end)

----------------------------------------------------------------------------
(* get_closure: breadth-first traversal marking scratch, then the marks    *)
(* are cleared and the discovery order is reversed.                        *)
Reverse(s) == [i \in 1..Len(s) |-> s[Len(s) + 1 - i]]

(* The three inner loops of get_closure over the children of one entity.   *)
RECURSIVE VisitChildren(_, _)
VisitChildren(st, children) ==
  IF children = <<>> THEN st
  ELSE IF st.objs[Head(children)].scratch = UNSET
       THEN VisitChildren([objs  |-> [st.objs EXCEPT ![Head(children)].scratch = 1],
                           queue |-> Append(st.queue, Head(children))],
                          Tail(children))
       ELSE VisitChildren(st, Tail(children))

(* The body of the outer loop of get_closure for the entity current.       *)
VisitEntity(st, current, include_helpers, include_embedded) ==
  LET s1 == VisitChildren(st, get_objs_used(st.objs, current))
      s2 == IF include_helpers
            THEN VisitChildren(s1, s1.objs[current].helpers) ELSE s1
  IN  IF include_embedded
      THEN VisitChildren(s2, s2.objs[current].embedded) ELSE s2

(* get_closure with the include_helpers test dropped.                      *)
RECURSIVE ClosureLoopAlwaysHelpers(_, _, _, _)
ClosureLoopAlwaysHelpers(st, first, include_helpers, include_embedded) ==
  IF first = Len(st.queue) THEN st
  ELSE ClosureLoopAlwaysHelpers(
         VisitEntity(st, st.queue[first + 1], TRUE, include_embedded),
         first + 1, include_helpers, include_embedded)

RECURSIVE ClosureLoop(_, _, _, _)
ClosureLoop(st, first, include_helpers, include_embedded) ==
  IF first = Len(st.queue) THEN st
  ELSE ClosureLoop(
         VisitEntity(st, st.queue[first + 1], include_helpers, include_embedded),
         first + 1, include_helpers, include_embedded)

(* The loops that set the scratch slot of every entity of ps to val: the   *)
(* heap after the loop, entity by entity.                                  *)
SetScratch(os, ps, val) ==
  [p \in 1..Len(os) |->
     IF \E k \in 1..Len(ps) : ps[k] = p THEN [os[p] EXCEPT !.scratch = val]
     ELSE os[p]]

(* Returns the heap after the call and the returned vector.                *)
get_closure(os, obj, include_helpers, include_embedded) ==
  LET st == ClosureLoop([objs |-> os, queue |-> <<obj>>], 0,
                        include_helpers, include_embedded)
  IN  [objs |-> SetScratch(st.objs, st.queue, UNSET), queue |-> Reverse(st.queue)]

----------------------------------------------------------------------------
(* copy_closure.  The walk stops (ok = FALSE) where the assertion          *)
(* idx < co->scratch fails or at() is out of range; the scratch slots are  *)
(* then left as they were.                                                 *)
(* The loop closure[i]->scratch = i from index i on: the heap after the    *)
(* loop, where an entity that occurs twice keeps its last index.           *)
LastIndexIn(ps, i, p) ==
  CHOOSE k \in (i + 1)..Len(ps) : ps[k] = p /\ \A j \in (k + 1)..Len(ps) : ps[j] # p

SetScratchIndex(os, ps, i) ==
  [p \in 1..Len(os) |->
     IF \E k \in (i + 1)..Len(ps) : ps[k] = p
     THEN [os[p] EXCEPT !.scratch = LastIndexIn(ps, i, p) - 1]
     ELSE os[p]]

copy_object(w, object) ==
  IF w.objs[object].type = POINT
  THEN new_point3(w, w.objs[object].pos, w.objs[object].size)
  ELSE new_object(w, w.objs[object].type)

IndexOk(idx, co_scratch, out_closure) ==
  idx < co_scratch /\ idx >= 0 /\ idx < Len(out_closure)

RECURSIVE CopyHelpers(_, _, _, _, _)
CopyHelpers(st, co, oco, out_closure, k) ==
  IF ~st.ok \/ k > Len(st.w.objs[co].helpers) THEN st
  ELSE LET idx == st.w.objs[st.w.objs[co].helpers[k]].scratch
       IN  IF ~IndexOk(idx, st.w.objs[co].scratch, out_closure)
           THEN [st EXCEPT !.ok = FALSE]
           ELSE CopyHelpers([st EXCEPT !.w = add_helper(st.w, oco, out_closure[idx + 1])],
                            co, oco, out_closure, k + 1)

RECURSIVE CopyUses(_, _, _, _, _)
CopyUses(st, co, oco, out_closure, k) ==
  IF ~st.ok \/ k > Len(st.w.objs[co].used) THEN st
  ELSE LET cou == st.w.objs[co].used[k]
           idx == st.w.objs[cou.obj].scratch
       IN  IF ~IndexOk(idx, st.w.objs[co].scratch, out_closure)
           THEN [st EXCEPT !.ok = FALSE]
           ELSE CopyUses([st EXCEPT !.w = add_use(st.w, oco, cou.dir, out_closure[idx + 1])],
                         co, oco, out_closure, k + 1)

RECURSIVE CopyLoop(_, _, _)
CopyLoop(st, closure, i) ==
  IF ~st.ok \/ i > Len(closure) THEN st
  ELSE LET co  == closure[i]
           w1  == copy_object(st.w, co)
           oco == Top(w1)
           s1  == CopyHelpers([st EXCEPT !.w = w1], co, oco, st.out, 1)
           s2  == CopyUses(s1, co, oco, st.out, 1)
       IN  CopyLoop([s2 EXCEPT !.out = Append(@, oco)], closure, i + 1)

(* Returns the world after the call, whether it returned, the clone of the *)
(* root, and the two vectors closure and out_closure.                      *)
copy_closure(w, object) ==
  CASE IsWorld(w) ->
      LET c  == get_closure(w.objs, object, TRUE, TRUE)
          os == SetScratchIndex(c.objs, c.queue, 0)
          st == CopyLoop([w |-> World(os, w.next_id), ok |-> TRUE, out |-> <<>>],
                         c.queue, 1)
      IN  IF st.ok
          THEN [w |-> World(SetScratch(st.w.objs, c.queue, UNSET), st.w.next_id),
                ok |-> TRUE, ret |-> st.out[Len(st.out)],
                closure |-> c.queue, out_closure |-> st.out]
          ELSE [w |-> st.w, ok |-> FALSE, ret |-> 0,
                closure |-> c.queue, out_closure |-> st.out]

----------------------------------------------------------------------------
(* collect_assembly_boundary.  The tally of uses per facet is kept in the  *)
(* facets' scratch slots.                                                  *)
new_volume2(w, shell) == add_use_top(new_object(w, VOLUME), FORWARD, shell)

new_group(w) == new_object(w, GROUP)

add_to_group(w, group, o) == add_use(w, group, FORWARD, o)

(* The first loop: the uses of every cell's boundary, and whether the      *)
(* assertion cell_type == cell->type held for every cell.                  *)
RECURSIVE CollectUses(_, _, _, _)
CollectUses(os, cell_uses, cell_type, uses) ==
  IF cell_uses = <<>> THEN [ok |-> TRUE, cell_type |-> cell_type, uses |-> uses]
  ELSE LET cell == Head(cell_uses).obj
           ct   == IF cell_type = -1 THEN os[cell].type ELSE cell_type
       IN  IF ct # os[cell].type
           THEN [ok |-> FALSE, cell_type |-> ct, uses |-> uses]
           ELSE CollectUses(os, Tail(cell_uses), ct,
                            uses \o os[os[cell].used[1].obj].used)

(* The counting loop with ++scratch replaced by scratch = 1.               *)
MarkScratch(os, uses) ==
  [p \in 1..Len(os) |->
     IF \E k \in 1..Len(uses) : uses[k].obj = p THEN [os[p] EXCEPT !.scratch = 1]
     ELSE os[p]]

(* The loop ++use.obj->scratch over uses: the heap after the loop, where   *)
(* each entity was incremented once per use of it.                         *)
IncrScratch(os, uses) ==
  [p \in 1..Len(os) |->
     [os[p] EXCEPT !.scratch = @ + Cardinality({k \in 1..Len(uses) : uses[k].obj = p})]]

(* The filter loop with the test scratch == 1 weakened to scratch >= 1.    *)
RECURSIVE KeepCounted(_, _)
KeepCounted(os, uses) ==
  IF uses = <<>> THEN <<>>
  ELSE (IF os[Head(uses).obj].scratch >= 1 THEN <<Head(uses)>> ELSE <<>>)
         \o KeepCounted(os, Tail(uses))

RECURSIVE KeepCountedOnce(_, _)
KeepCountedOnce(os, uses) ==
  IF uses = <<>> THEN <<>>
  ELSE (IF os[Head(uses).obj].scratch = 1 THEN <<Head(uses)>> ELSE <<>>)
         \o KeepCountedOnce(os, Tail(uses))

UseTargets(uses) == [i \in 1..Len(uses) |-> uses[i].obj]

(* Returns the world after the call, whether it returned, and the new      *)
(* boundary aggregate.                                                     *)
collect_assembly_boundary(w, assembly) ==
  CASE IsWorld(w) ->
      LET c   == CollectUses(w.objs, w.objs[assembly].used, -1, <<>>)
          os1 == SetScratch(w.objs, UseTargets(c.uses), 0)
          os2 == IncrScratch(os1, c.uses)
          w3  == new_object(World(os2, w.next_id), get_boundary_type(c.cell_type))
          bnd == Top(w3)
          os4 == [w3.objs EXCEPT ![bnd].used = KeepCountedOnce(w3.objs, c.uses)]
      IN  IF c.ok
          THEN [w |-> World(SetScratch(os4, UseTargets(c.uses), UNSET), w3.next_id),
                ok |-> TRUE, ret |-> bnd]
          ELSE [w |-> w, ok |-> FALSE, ret |-> 0]

----------------------------------------------------------------------------
(* The extrusion engine.  A Vector is a triple of integers; a Transform is *)
(* modelled by the vector v of the translation a -> a + v that             *)
(* extrude_point, extrude_edge2, extrude_loop2 and extrude_face build.     *)
(* A constructor that returns an Extruded returns it with the world after  *)
(* the call; where a function makes an entity and goes on with it, the     *)
(* rest of its body is an operator of its own (f_2, f_3) that takes the    *)
(* world so far.                                                           *)
nullptr == 0

VecAdd(a, b) == [i \in 1..3 |-> a[i] + b[i]]

Apply(tr, a) == VecAdd(a, tr)

Extruded(middle, end) == [middle |-> middle, end |-> end]

edge_point(os, edge, i) == os[edge].used[i + 1].obj

new_loop(w) == new_object(w, LOOP)

new_shell(w) == new_object(w, SHELL)

new_plane(w) == new_object(w, PLANE)

new_ruled(w) == new_object(w, RULED)

new_plane2(w, loop) == add_use_top(new_plane(w), FORWARD, loop)

new_ruled2(w, loop) == add_use_top(new_ruled(w), FORWARD, loop)

new_arc2(w, start, center, end) ==
  CASE IsWorld(w) ->
      add_use_top(add_helper_top(add_use_top(new_object(w, ARC), FORWARD, start), center),
                  FORWARD, end)

new_ellipse2(w, start, center, major_pt, end) ==
  CASE IsWorld(w) ->
      add_use_top(
        add_helper_top(add_helper_top(add_use_top(new_object(w, ELLIPSE), FORWARD, start),
                                      center), major_pt),
        FORWARD, end)

RECURSIVE AddHelpersTop(_, _)
AddHelpersTop(w, hs) ==
  CASE IsWorld(w) ->
      IF hs = <<>> THEN w ELSE AddHelpersTop(add_helper_top(w, Head(hs)), Tail(hs))

(* pts has at least two points (the assertion of new_spline2).             *)
new_spline2(w, pts) ==
  CASE IsWorld(w) ->
      add_use_top(AddHelpersTop(add_use_top(new_object(w, SPLINE), FORWARD, pts[1]),
                                SubSeq(pts, 2, Len(pts) - 1)),
                  FORWARD, pts[Len(pts)])

arc_center(os, arc) == os[arc].helpers[1]

ellipse_center(os, e) == os[e].helpers[1]

ellipse_major_pt(os, e) == os[e].helpers[2]

(* The transformed copy new_point3(tr(p->pos), p->size) of a point.        *)
NewTransformed(w, p, tr) == new_point3(w, Apply(tr, w.objs[p].pos), w.objs[p].size)

WithMiddleTop(w, end) == [w |-> w, middle |-> Top(w), end |-> end]

extrude_point2_2(w1, start) ==
  CASE IsWorld(w1) ->
      WithMiddleTop(new_line2(w1, start, Top(w1)), Top(w1))

extrude_point2(w, start, tr) ==
  CASE IsWorld(w) ->
      extrude_point2_2(NewTransformed(w, start, tr), start)

RECURSIVE extrude_points_from(_, _, _, _, _)
extrude_points_from(w, points, tr, i, extrusions) ==
  CASE IsWorld(w) ->
      IF i = Len(points) THEN [w |-> w, extrusions |-> extrusions]
      ELSE LET e == extrude_point2(w, points[i + 1], tr)
           IN  extrude_points_from(
                 World([e.w.objs EXCEPT ![points[i + 1]].scratch = i], e.w.next_id),
                 points, tr, i + 1, Append(extrusions, Extruded(e.middle, e.end)))

extrude_points(w, points, tr) == extrude_points_from(w, points, tr, 0, <<>>)

(* The transformed copies of the Spline's helpers, in order.               *)
RECURSIVE CopyHelperPoints(_, _, _, _), CopyHelperPoints2(_, _, _, _)
CopyHelperPoints(w, hs, tr, pts) ==
  CASE IsWorld(w) ->
      IF hs = <<>> THEN [w |-> w, pts |-> pts]
      ELSE CopyHelperPoints2(NewTransformed(w, Head(hs), tr), Tail(hs), tr, pts)

CopyHelperPoints2(w1, hs, tr, pts) ==
  CASE IsWorld(w1) ->
      CopyHelperPoints(w1, hs, tr, Append(pts, Top(w1)))

WithEndTop(w) == [w |-> w, end |-> Top(w)]

EndArc(w1, left, right) ==
  CASE IsWorld(w1) ->
      new_arc2(w1, left.end, Top(w1), right.end)

EndEllipse2(w2, end_center, left, right) ==
  CASE IsWorld(w2) ->
      new_ellipse2(w2, left.end, end_center, Top(w2), right.end)

EndEllipse(w1, start, tr, left, right) ==
  CASE IsWorld(w1) ->
      EndEllipse2(NewTransformed(w1, ellipse_major_pt(w1.objs, start), tr), Top(w1),
                  left, right)

EndSpline(h, right) ==
  CASE IsWorld(h.w) ->
      new_spline2(h.w, Append(h.pts, right.end))

(* The switch that builds the end curve.                                   *)
NewEndCurve(w, start, tr, left, right) ==
  CASE IsWorld(w) ->
      CASE w.objs[start].type = LINE -> WithEndTop(new_line2(w, left.end, right.end))
        [] w.objs[start].type = ARC ->
             WithEndTop(EndArc(NewTransformed(w, arc_center(w.objs, start), tr), left, right))
        [] w.objs[start].type = ELLIPSE ->
             WithEndTop(EndEllipse(NewTransformed(w, ellipse_center(w.objs, start), tr),
                                   start, tr, left, right))
        [] w.objs[start].type = SPLINE ->
             WithEndTop(EndSpline(CopyHelperPoints(w, w.objs[start].helpers, tr, <<left.end>>),
                                  right))
        [] OTHER -> [w |-> w, end |-> nullptr]

(* The switch that builds the lateral surface.                             *)
NewLateral(w, start, loop, end) ==
  CASE IsWorld(w) ->
      CASE w.objs[start].type = LINE -> WithMiddleTop(new_plane2(w, loop), end)
        [] w.objs[start].type \in {ARC, ELLIPSE, SPLINE} ->
             WithMiddleTop(new_ruled2(w, loop), end)
        [] OTHER -> [w |-> w, middle |-> nullptr, end |-> end]

(* extrude_edge3 with the left lateral line put Forward in the Loop.       *)
extrude_edge3_3_left_forward(e, loop, start, left) ==
  CASE IsWorld(e.w) ->
      NewLateral(add_use(add_use(e.w, loop, REVERSE, e.end), loop, FORWARD, left.middle),
                 start, loop, e.end)

extrude_edge3_3(e, loop, start, left) ==
  CASE IsWorld(e.w) ->
      NewLateral(add_use(add_use(e.w, loop, REVERSE, e.end), loop, REVERSE, left.middle),
                 start, loop, e.end)

extrude_edge3_2(w1, start, tr, left, right) ==
  CASE IsWorld(w1) ->
      extrude_edge3_3(
        NewEndCurve(add_use_top(add_use_top(w1, FORWARD, start), FORWARD, right.middle),
                    start, tr, left, right),
        Top(w1), start, left)

extrude_edge3(w, start, tr, left, right) ==
  CASE IsWorld(w) ->
      extrude_edge3_2(new_loop(w), start, tr, left, right)

(* at(v, i) throws unless 0 <= i < v.size().                               *)
InRange(v, i) == 0 <= i /\ i < Len(v)

(* st.ok turns FALSE where at() throws.                                    *)
RECURSIVE extrude_edges_from(_, _, _, _, _), extrude_edges_2(_, _, _, _, _, _)
extrude_edges_from(st, edges, tr, point_extrusions, i) ==
  IF ~st.ok \/ i = Len(edges) THEN st
  ELSE LET edge == edges[i + 1]
           l == st.w.objs[edge_point(st.w.objs, edge, 0)].scratch
           r == st.w.objs[edge_point(st.w.objs, edge, 1)].scratch
       IN  IF ~InRange(point_extrusions, l) \/ ~InRange(point_extrusions, r)
           THEN [st EXCEPT !.ok = FALSE]
           ELSE extrude_edges_2(
                  extrude_edge3(st.w, edge, tr, point_extrusions[l + 1],
                                point_extrusions[r + 1]),
                  st.extrusions, edges, tr, point_extrusions, i)

extrude_edges_2(e, extrusions, edges, tr, point_extrusions, i) ==
  extrude_edges_from(
    [w |-> World([e.w.objs EXCEPT ![edges[i + 1]].scratch = i], e.w.next_id),
     ok |-> TRUE, extrusions |-> Append(extrusions, Extruded(e.middle, e.end))],
    edges, tr, point_extrusions, i + 1)

extrude_edges(w, edges, tr, point_extrusions) ==
  extrude_edges_from([w |-> w, ok |-> TRUE, extrusions |-> <<>>], edges, tr,
                     point_extrusions, 0)

loop_points(os, loop) ==
  [k \in 1..Len(os[loop].used) |->
     edge_point(os, os[loop].used[k].obj, os[loop].used[k].dir)]

(* The two loops of extrude_loop4 over the uses of start.                  *)
RECURSIVE AddEndUses(_, _, _, _, _)
AddEndUses(st, uses, end, edge_extrusions, k) ==
  IF ~st.ok \/ k > Len(uses) THEN st
  ELSE LET idx == st.w.objs[uses[k].obj].scratch
       IN  IF ~InRange(edge_extrusions, idx) THEN [st EXCEPT !.ok = FALSE]
           ELSE AddEndUses([st EXCEPT !.w = add_use(st.w, end, uses[k].dir,
                                                    edge_extrusions[idx + 1].end)],
                           uses, end, edge_extrusions, k + 1)

(* The lateral uses with the shell orientation ignored.                    *)
RECURSIVE AddLateralUsesNoFlip(_, _, _, _, _, _)
AddLateralUsesNoFlip(st, uses, shell, shell_dir, edge_extrusions, k) ==
  IF ~st.ok \/ k > Len(uses) THEN st
  ELSE LET idx == st.w.objs[uses[k].obj].scratch
       IN  IF ~InRange(edge_extrusions, idx) THEN [st EXCEPT !.ok = FALSE]
           ELSE AddLateralUsesNoFlip(
                  [st EXCEPT !.w = add_use(st.w, shell, uses[k].dir,
                                           edge_extrusions[idx + 1].middle)],
                  uses, shell, shell_dir, edge_extrusions, k + 1)

RECURSIVE AddLateralUses(_, _, _, _, _, _)
AddLateralUses(st, uses, shell, shell_dir, edge_extrusions, k) ==
  IF ~st.ok \/ k > Len(uses) THEN st
  ELSE LET idx == st.w.objs[uses[k].obj].scratch
       IN  IF ~InRange(edge_extrusions, idx) THEN [st EXCEPT !.ok = FALSE]
           ELSE AddLateralUses(
                  [st EXCEPT !.w = add_use(st.w, shell, Xor(uses[k].dir, shell_dir),
                                           edge_extrusions[idx + 1].middle)],
                  uses, shell, shell_dir, edge_extrusions, k + 1)

WithShellAndEnd(st, shell, end) ==
  [w |-> st.w, ok |-> st.ok, middle |-> shell, end |-> end]

extrude_loop4_2(w1, uses, shell, shell_dir, edge_extrusions) ==
  CASE IsWorld(w1) ->
      WithShellAndEnd(
        AddLateralUses(AddEndUses([w |-> w1, ok |-> TRUE], uses, Top(w1), edge_extrusions, 1),
                       uses, shell, shell_dir, edge_extrusions, 1),
        shell, Top(w1))

extrude_loop4(w, start, shell, shell_dir, edge_extrusions) ==
  CASE IsWorld(w) ->
      extrude_loop4_2(new_loop(w), w.objs[start].used, shell, shell_dir, edge_extrusions)

(* ClearSwept without the loop over start_edges.                           *)
ClearSweptPoints(r, start_points, start_edges) ==
  IF ~r.ok THEN [w |-> r.w, ok |-> FALSE, middle |-> nullptr, end |-> nullptr]
  ELSE [w |-> World(SetScratch(r.w.objs, start_points, UNSET), r.w.next_id),
        ok |-> TRUE, middle |-> r.middle, end |-> r.end]

(* The end of extrude_loop3 and extrude_face2: the scratch slots of the    *)
(* points and edges are cleared, unless at() threw on the way.             *)
ClearSwept(r, start_points, start_edges) ==
  IF ~r.ok THEN [w |-> r.w, ok |-> FALSE, middle |-> nullptr, end |-> nullptr]
  ELSE [w |-> World(SetScratch(SetScratch(r.w.objs, start_points, UNSET),
                               start_edges, UNSET), r.w.next_id),
        ok |-> TRUE, middle |-> r.middle, end |-> r.end]

extrude_loop3_4(ee, start, shell, shell_dir) ==
  IF ~ee.ok THEN [w |-> ee.w, ok |-> FALSE, middle |-> nullptr, end |-> nullptr]
  ELSE extrude_loop4(ee.w, start, shell, shell_dir, ee.extrusions)

extrude_loop3_3(pe, start, tr, shell, shell_dir, start_edges) ==
  CASE IsWorld(pe.w) ->
      extrude_loop3_4(extrude_edges(pe.w, start_edges, tr, pe.extrusions),
                      start, shell, shell_dir)

extrude_loop3_2(w1, start, tr, shell, shell_dir) ==
  CASE IsWorld(w1) ->
      ClearSwept(
        extrude_loop3_3(extrude_points(w1, loop_points(w1.objs, start), tr),
                        start, tr, shell, shell_dir, get_objs_used(w1.objs, start)),
        loop_points(w1.objs, start), get_objs_used(w1.objs, start))

extrude_loop3(w, start, tr, shell, shell_dir) ==
  CASE IsWorld(w) ->
      extrude_loop3_2(new_loop(w), start, tr, shell, shell_dir)

extrude_loop2(w, start, v, shell, shell_dir) == extrude_loop3(w, start, v, shell, shell_dir)

extrude_loop_2(w1, start, v) ==
  CASE IsWorld(w1) ->
      extrude_loop2(w1, start, v, Top(w1), FORWARD)

extrude_loop(w, start, v) == extrude_loop_2(new_shell(w), start, v)

----------------------------------------------------------------------------
(* unscramble_loop.  The multimap keeps the entries of one key in the      *)
(* order of their insertion, so the entries of a point are listed by going *)
(* through the uses of the loop.                                           *)
RECURSIVE LookupEntries(_, _, _)
LookupEntries(os, uses, point) ==
  IF uses = <<>> THEN <<>>
  ELSE LET c == Head(uses).obj
       IN  (IF edge_point(os, c, 0) = point THEN <<Use(FORWARD, c)>> ELSE <<>>)
             \o (IF edge_point(os, c, 1) = point THEN <<Use(REVERSE, c)>> ELSE <<>>)
             \o LookupEntries(os, Tail(uses), point)

(* The inner for loop with the test it->second.obj != use.obj dropped.     *)
RECURSIVE PushAll(_, _, _)
PushAll(new_uses, entries, use) ==
  IF entries = <<>> THEN new_uses
  ELSE PushAll(Append(new_uses, Head(entries)), Tail(entries), use)

RECURSIVE PushOthers(_, _, _)
PushOthers(new_uses, entries, use) ==
  IF entries = <<>> THEN new_uses
  ELSE PushOthers(IF Head(entries).obj # use.obj
                  THEN Append(new_uses, Head(entries)) ELSE new_uses,
                  Tail(entries), use)

(* The while loop.  An iteration that pushes nothing leaves new_uses as it *)
(* was, so the loop repeats that iteration for ever: diverges.             *)
RECURSIVE UnscrambleWhile(_, _, _)
UnscrambleWhile(os, loop, new_uses) ==
  IF ~(Len(new_uses) < Len(os[loop].used))
  THEN [diverges |-> FALSE, new_uses |-> new_uses]
  ELSE LET use   == new_uses[Len(new_uses)]
           point == edge_point(os, use.obj, 1 - use.dir)
           next  == PushOthers(new_uses, LookupEntries(os, os[loop].used, point), use)
       IN  IF next = new_uses THEN [diverges |-> TRUE, new_uses |-> new_uses]
           ELSE UnscrambleWhile(os, loop, next)

(* Returns the heap after the call, or diverges.                           *)
unscramble_loop(os, loop) ==
  LET r == UnscrambleWhile(os, loop, <<os[loop].used[1]>>)
  IN  [objs |-> IF r.diverges THEN os ELSE [os EXCEPT ![loop].used = r.new_uses],
       diverges |-> r.diverges]

----------------------------------------------------------------------------
(* Face sweeps.                                                            *)
filter_by_dim(os, ps, dim) == SelectSeq(ps, LAMBDA p : type_dims(os[p].type) = dim)

filter_points(os, ps) == filter_by_dim(os, ps, 0)

Failed(w) == [w |-> w, ok |-> FALSE, middle |-> nullptr, end |-> nullptr]

extrude_face3_5(st, shell, end) ==
  IF ~st.ok THEN Failed(st.w)
  ELSE [w |-> new_volume2(st.w, shell), ok |-> TRUE,
        middle |-> Len(st.w.objs) + 1, end |-> end]

(* The loop of extrude_face3 over the uses of the face.                    *)
RECURSIVE FaceLoops(_, _, _, _, _, _), FaceLoops2(_, _, _, _, _, _)
FaceLoops(st, uses, shell, end, edge_extrusions, k) ==
  IF ~st.ok \/ k > Len(uses) THEN st
  ELSE FaceLoops2(extrude_loop4(st.w, uses[k].obj, shell, uses[k].dir, edge_extrusions),
                  uses, shell, end, edge_extrusions, k)

FaceLoops2(r, uses, shell, end, edge_extrusions, k) ==
  IF ~r.ok THEN [w |-> r.w, ok |-> FALSE]
  ELSE FaceLoops([w |-> add_use(r.w, end, uses[k].dir, r.end), ok |-> TRUE],
                 uses, shell, end, edge_extrusions, k + 1)

(* extrude_face3 with the end face put into the Shell before the face.     *)
extrude_face3_4_end_first(w2, end, face, edge_extrusions) ==
  CASE IsWorld(w2) ->
      extrude_face3_5(
        FaceLoops([w |-> add_use_top(add_use_top(w2, FORWARD, end), REVERSE, face),
                   ok |-> TRUE],
                  w2.objs[face].used, Top(w2), end, edge_extrusions, 1),
        Top(w2), end)

extrude_face3_4(w2, end, face, edge_extrusions) ==
  CASE IsWorld(w2) ->
      extrude_face3_5(
        FaceLoops([w |-> add_use_top(add_use_top(w2, REVERSE, face), FORWARD, end),
                   ok |-> TRUE],
                  w2.objs[face].used, Top(w2), end, edge_extrusions, 1),
        Top(w2), end)

extrude_face3_3(w1, face, edge_extrusions) ==
  CASE IsWorld(w1) ->
      extrude_face3_4(new_shell(w1), Top(w1), face, edge_extrusions)

extrude_face3_2(w, face) ==
  CASE IsWorld(w) ->
      IF w.objs[face].type = PLANE THEN new_plane(w) ELSE new_ruled(w)

(* The assertion type_dims[face->type] == 2 aborts on anything else.       *)
extrude_face3(w, face, edge_extrusions) ==
  IF type_dims(w.objs[face].type) # 2 THEN Failed(w)
  ELSE extrude_face3_3(extrude_face3_2(w, face), face, edge_extrusions)

extrude_face2_4(ee, face) ==
  IF ~ee.ok THEN Failed(ee.w) ELSE extrude_face3(ee.w, face, ee.extrusions)

extrude_face2_3(pe, face, tr, start_edges) ==
  CASE IsWorld(pe.w) ->
      extrude_face2_4(extrude_edges(pe.w, start_edges, tr, pe.extrusions), face)

extrude_face2_2(w, closure, face, tr) ==
  CASE IsWorld(w) ->
      ClearSwept(
        extrude_face2_3(extrude_points(w, filter_points(w.objs, closure), tr), face, tr,
                        filter_by_dim(w.objs, closure, 1)),
        filter_points(w.objs, closure), filter_by_dim(w.objs, closure, 1))

ClosureWorld(c, next) == [w |-> World(c.objs, next), closure |-> c.queue]

extrude_face2_1(c, face, tr) ==
  CASE IsWorld(c.w) ->
      extrude_face2_2(c.w, c.closure, face, tr)

extrude_face2(w, face, tr) ==
  CASE IsWorld(w) ->
      extrude_face2_1(ClosureWorld(get_closure(w.objs, face, FALSE, TRUE), w.next_id),
                      face, tr)

extrude_face(w, face, v) == extrude_face2(w, face, v)

(* The loop of extrude_face_group over the faces of the group.             *)
RECURSIVE GroupFaces(_, _, _, _), GroupFaces2(_, _, _, _, _)
GroupFaces(st, uses, edge_extrusions, k) ==
  IF ~st.ok \/ k > Len(uses) THEN st
  ELSE GroupFaces2(extrude_face3(st.w, uses[k].obj, edge_extrusions), st.extrusions,
                   uses, edge_extrusions, k)

GroupFaces2(r, extrusions, uses, edge_extrusions, k) ==
  IF ~r.ok THEN [w |-> r.w, ok |-> FALSE, extrusions |-> extrusions]
  ELSE GroupFaces([w |-> r.w, ok |-> TRUE,
                   extrusions |-> Append(extrusions, Extruded(r.middle, r.end))],
                  uses, edge_extrusions, k + 1)

RECURSIVE AddExtrusionsToGroups(_, _, _, _)
AddExtrusionsToGroups(w, volume_group, end_face_group, exts) ==
  CASE IsWorld(w) ->
      IF exts = <<>> THEN w
      ELSE AddExtrusionsToGroups(
             add_to_group(add_to_group(w, volume_group, Head(exts).middle),
                          end_face_group, Head(exts).end),
             volume_group, end_face_group, Tail(exts))

extrude_face_group_6(w2, exts) ==
  CASE IsWorld(w2) ->
      [w |-> AddExtrusionsToGroups(w2, Top(w2) - 1, Top(w2), exts), ok |-> TRUE,
       middle |-> Top(w2) - 1, end |-> Top(w2)]

extrude_face_group_5(fe, start_points, start_edges) ==
  IF ~fe.ok THEN Failed(fe.w)
  ELSE extrude_face_group_6(
         new_group(new_group(World(SetScratch(SetScratch(fe.w.objs, start_points, UNSET),
                                              start_edges, UNSET), fe.w.next_id))),
         fe.extrusions)

extrude_face_group_4(ee, face_group, start_points, start_edges) ==
  IF ~ee.ok THEN Failed(ee.w)
  ELSE extrude_face_group_5(
         GroupFaces([w |-> ee.w, ok |-> TRUE, extrusions |-> <<>>],
                    ee.w.objs[face_group].used, ee.extrusions, 1),
         start_points, start_edges)

extrude_face_group_3(pe, face_group, tr, start_points, start_edges) ==
  CASE IsWorld(pe.w) ->
      extrude_face_group_4(extrude_edges(pe.w, start_edges, tr, pe.extrusions),
                           face_group, start_points, start_edges)

(* extrude_face_group with every curve of the closure listed once per     *)
(* face of the group.                                                      *)
extrude_face_group_2_per_face(w, closure, face_group, tr) ==
  CASE IsWorld(w) ->
      extrude_face_group_3(extrude_points(w, filter_points(w.objs, closure), tr),
                           face_group, tr, filter_points(w.objs, closure),
                           filter_by_dim(w.objs, closure, 1)
                             \o (IF Len(w.objs[face_group].used) > 1
                                 THEN filter_by_dim(w.objs, closure, 1) ELSE <<>>))

extrude_face_group_2(w, closure, face_group, tr) ==
  CASE IsWorld(w) ->
      extrude_face_group_3(extrude_points(w, filter_points(w.objs, closure), tr),
                           face_group, tr, filter_points(w.objs, closure),
                           filter_by_dim(w.objs, closure, 1))

extrude_face_group_1(c, face_group, tr) ==
  CASE IsWorld(c.w) ->
      extrude_face_group_2(c.w, c.closure, face_group, tr)

extrude_face_group(w, face_group, tr) ==
  CASE IsWorld(w) ->
      extrude_face_group_1(
        ClosureWorld(get_closure(w.objs, face_group, FALSE, TRUE), w.next_id),
        face_group, tr)

----------------------------------------------------------------------------
(* The canned primitives new_cube is made of.                              *)
extrude_point(w, start, v) == extrude_point2(w, start, v)

new_line3(w, origin, span) ==
  CASE IsWorld(w) ->
      extrude_point(new_point2(w, origin), Top(w) + 1, span)

extrude_edge2(w, start, v, left, right) == extrude_edge3(w, start, v, left, right)

extrude_edge_3(right, start, v, left) ==
  CASE IsWorld(right.w) ->
      extrude_edge2(right.w, start, v, left, Extruded(right.middle, right.end))

extrude_edge_2(left, start, v) ==
  CASE IsWorld(left.w) ->
      extrude_edge_3(extrude_point(left.w, edge_point(left.w.objs, start, 1), v),
                     start, v, Extruded(left.middle, left.end))

extrude_edge(w, start, v) ==
  CASE IsWorld(w) ->
      extrude_edge_2(extrude_point(w, edge_point(w.objs, start, 0), v), start, v)

new_square_2(l, y) ==
  CASE IsWorld(l.w) ->
      extrude_edge(l.w, l.middle, y)

(* Returns the world and, as middle, the square.                           *)
new_square(w, origin, x, y) ==
  CASE IsWorld(w) ->
      new_square_2(new_line3(w, origin, x), y)

new_cube_2(sq, z) ==
  CASE IsWorld(sq.w) ->
      extrude_face(sq.w, sq.middle, z)

(* Returns the world and, as middle, the cube.                             *)
new_cube(w, origin, x, y, z) ==
  CASE IsWorld(w) ->
      new_cube_2(new_square(w, origin, x, y), z)

face_loop(os, face) == os[face].used[1].obj

volume_shell(os, v) == os[v].used[1].obj

get_cube_face(os, cube, which) == os[os[cube].used[1].obj].used[which + 1].obj

----------------------------------------------------------------------------
(* Welding.                                                                *)
FirstUseOf(os, user, used) ==
  {i \in 1..Len(os[user].used) :
     /\ os[user].used[i].obj = used
     /\ \A j \in 1..(i - 1) : os[user].used[j].obj # used}

(* The assertion it != user->used.end().                                   *)
UsedBy(os, user, used) == FirstUseOf(os, user, used) # {}

get_used_dir(os, user, used) ==
  os[user].used[CHOOSE i \in FirstUseOf(os, user, used) : TRUE].dir

insert_group_2(b, into) ==
  IF ~b.ok THEN [w |-> b.w, ok |-> FALSE]
  ELSE IF b.w.objs[b.ret].type # get_boundary_type(b.w.objs[into].type)
       THEN [w |-> b.w, ok |-> FALSE]
       ELSE [w |-> add_use(b.w, into, REVERSE, b.ret), ok |-> TRUE]

(* ok is FALSE where an assertion fails or abort() is called.              *)
insert_into(w, into, o) ==
  IF is_face(w.objs[o].type)
  THEN IF ~is_face(w.objs[into].type) THEN [w |-> w, ok |-> FALSE]
       ELSE [w |-> add_use(w, into, REVERSE, face_loop(w.objs, o)), ok |-> TRUE]
  ELSE IF w.objs[o].type = VOLUME
  THEN IF w.objs[into].type # VOLUME THEN [w |-> w, ok |-> FALSE]
       ELSE [w |-> add_use(w, into, REVERSE, volume_shell(w.objs, o)), ok |-> TRUE]
  ELSE IF w.objs[o].type = GROUP
  THEN insert_group_2(collect_assembly_boundary(w, o), into)
  ELSE [w |-> w, ok |-> FALSE]

(* The welded use with the orientation of small_volume_face not negated.   *)
weld_volume_face_into_same_dir(i, big_volume, small_volume, small_volume_face) ==
  IF ~i.ok \/ ~UsedBy(i.w.objs, volume_shell(i.w.objs, small_volume), small_volume_face)
  THEN [w |-> i.w, ok |-> FALSE]
  ELSE [w |-> add_use(i.w, volume_shell(i.w.objs, big_volume),
                      get_used_dir(i.w.objs, volume_shell(i.w.objs, small_volume),
                                   small_volume_face),
                      small_volume_face),
        ok |-> TRUE]

weld_volume_face_into_2(i, big_volume, small_volume, small_volume_face) ==
  IF ~i.ok \/ ~UsedBy(i.w.objs, volume_shell(i.w.objs, small_volume), small_volume_face)
  THEN [w |-> i.w, ok |-> FALSE]
  ELSE [w |-> add_use(i.w, volume_shell(i.w.objs, big_volume),
                      Not(get_used_dir(i.w.objs, volume_shell(i.w.objs, small_volume),
                                       small_volume_face)),
                      small_volume_face),
        ok |-> TRUE]

weld_volume_face_into(w, big_volume, small_volume, big_volume_face, small_volume_face) ==
  CASE IsWorld(w) ->
      weld_volume_face_into_2(insert_into(w, big_volume_face, small_volume_face),
                              big_volume, small_volume, small_volume_face)

(* The loop of weld_plane_with_holes_into over the hole loops.             *)
RECURSIVE PlugHoles(_, _, _, _, _)
PlugHoles(w, big_volume, small_volume, small_volume_face, i) ==
  CASE IsWorld(w) ->
      IF i > Len(w.objs[small_volume_face].used) THEN w
      ELSE PlugHoles(
             add_use(new_plane2(w, w.objs[small_volume_face].used[i].obj),
                     volume_shell(w.objs, big_volume),
                     Not(get_used_dir(w.objs, volume_shell(w.objs, small_volume),
                                      small_volume_face)),
                     Len(w.objs) + 1),
             big_volume, small_volume, small_volume_face, i + 1)

weld_plane_with_holes_into_2(r, big_volume, small_volume, small_volume_face) ==
  IF ~r.ok THEN r
  ELSE [w |-> PlugHoles(r.w, big_volume, small_volume, small_volume_face, 2),
        ok |-> TRUE]

weld_plane_with_holes_into(w, big_volume, small_volume, big_volume_face, small_volume_face) ==
  CASE IsWorld(w) ->
      weld_plane_with_holes_into_2(
        weld_volume_face_into(w, big_volume, small_volume, big_volume_face,
                              small_volume_face),
        big_volume, small_volume, small_volume_face)

RECURSIVE AddHalfShell(_, _, _, _)
AddHalfShell(w, vshell, uses, dir) ==
  CASE IsWorld(w) ->
      IF uses = <<>> THEN w
      ELSE AddHalfShell(add_use(w, vshell, Xor(Head(uses).dir, dir), Head(uses).obj),
                        vshell, Tail(uses), dir)

weld_half_shell_onto_3(u, next, volume, big_face, half_shell, loop, dir) ==
  IF u.diverges THEN [w |-> World(u.objs, next), ok |-> FALSE]
  ELSE [w |-> AddHalfShell(add_use(World(u.objs, next), big_face, REVERSE, loop),
                           volume_shell(u.objs, volume), u.objs[half_shell].used, dir),
        ok |-> TRUE]

weld_half_shell_onto_2(b, volume, big_face, half_shell, dir) ==
  IF ~b.ok THEN [w |-> b.w, ok |-> FALSE]
  ELSE weld_half_shell_onto_3(unscramble_loop(b.w.objs, b.ret), b.w.next_id,
                              volume, big_face, half_shell, b.ret, dir)

(* ok is FALSE where an assertion fails or unscramble_loop never returns.  *)
weld_half_shell_onto(w, volume, big_face, half_shell, dir) ==
  CASE IsWorld(w) ->
      weld_half_shell_onto_2(collect_assembly_boundary(w, half_shell),
                             volume, big_face, half_shell, dir)

----------------------------------------------------------------------------
(* transform_closure.  A Matrix is a triple of rows.                       *)
Dot(a, b) == a[1] * b[1] + a[2] * b[2] + a[3] * b[3]

MatVec(m, v) == <<Dot(m[1], v), Dot(m[2], v), Dot(m[3], v)>>

RECURSIVE TransformPoints(_, _, _, _)
TransformPoints(os, closure, linear, translation) ==
  IF closure = <<>> THEN os
  ELSE IF os[Head(closure)].type = POINT
       THEN TransformPoints(
              [os EXCEPT ![Head(closure)].pos = VecAdd(MatVec(linear, @), translation)],
              Tail(closure), linear, translation)
       ELSE TransformPoints(os, Tail(closure), linear, translation)

transform_closure_2(c, linear, translation) ==
  TransformPoints(c.objs, c.queue, linear, translation)

(* Returns the heap after the call.                                        *)
transform_closure(os, object, linear, translation) ==
  transform_closure_2(get_closure(os, object, TRUE, TRUE), linear, translation)

----------------------------------------------------------------------------
(* The script export.  A statement is a record: "name(id) = {args};" has   *)
(* op "=", "dim{id} In dim{owner};" has op "In" and the owner in args.     *)
type_names(t) ==
  CASE t = POINT -> "Point"
    [] t = LINE -> "Line"
    [] t = ARC -> "Circle"
    [] t = ELLIPSE -> "Ellipse"
    [] t = SPLINE -> "Spline"
    [] t = PLANE -> "Plane Surface"
    [] t = RULED -> "Ruled Surface"
    [] t = VOLUME -> "Volume"
    [] t = LOOP -> "Line Loop"
    [] t = SHELL -> "Surface Loop"
    [] t = GROUP -> "Gmodel Group"

physical_type_names(t) ==
  CASE t = POINT -> "Physical Point"
    [] t \in {LINE, ARC, ELLIPSE, SPLINE} -> "Physical Line"
    [] t \in {PLANE, RULED} -> "Physical Surface"
    [] t = VOLUME -> "Physical Volume"

(* dim_names has the four entries 0..3; any other index is out of bounds.  *)
dim_names(d) ==
  CASE d = 0 -> "Point"
    [] d = 1 -> "Line"
    [] d = 2 -> "Surface"
    [] d = 3 -> "Volume"

Statement(op, name, id, args, into) ==
  [op |-> op, name |-> name, id |-> id, args |-> args, into |-> into]

print_point(os, p) ==
  <<Statement("=", "Point", os[p].id, os[p].pos \o <<os[p].size>>, "")>>

print_arc(os, arc) ==
  <<Statement("=", type_names(os[arc].type), os[arc].id,
              <<os[edge_point(os, arc, 0)].id, os[arc_center(os, arc)].id,
                os[edge_point(os, arc, 1)].id>>, "")>>

print_ellipse(os, e) ==
  <<Statement("=", type_names(os[e].type), os[e].id,
              <<os[edge_point(os, e, 0)].id, os[ellipse_center(os, e)].id,
                os[ellipse_major_pt(os, e)].id, os[edge_point(os, e, 1)].id>>, "")>>

print_spline(os, e) ==
  <<Statement("=", type_names(os[e].type), os[e].id,
              <<os[edge_point(os, e, 0)].id>>
                \o [k \in 1..Len(os[e].helpers) |-> os[os[e].helpers[k]].id]
                \o <<os[edge_point(os, e, 1)].id>>, "")>>

(* A Reverse use by a boundary aggregate is written with a minus sign.     *)
print_simple_object(os, obj) ==
  <<Statement("=", type_names(os[obj].type), os[obj].id,
              [k \in 1..Len(os[obj].used) |->
                 IF is_boundary(os[obj].type) /\ os[obj].used[k].dir = REVERSE
                 THEN -(os[os[obj].used[k].obj].id)
                 ELSE os[os[obj].used[k].obj].id], "")>>
    \o [k \in 1..Len(os[obj].embedded) |->
          Statement("In", dim_names(type_dims(os[os[obj].embedded[k]].type)),
                    os[os[obj].embedded[k]].id, <<os[obj].id>>,
                    dim_names(type_dims(os[obj].type)))]

(* print_object with a second empty case for the boundary aggregates.      *)
print_object_entities(os, obj) ==
  CASE os[obj].type = POINT -> print_point(os, obj)
    [] os[obj].type = ARC -> print_arc(os, obj)
    [] os[obj].type = ELLIPSE -> print_ellipse(os, obj)
    [] os[obj].type = SPLINE -> print_spline(os, obj)
    [] os[obj].type = GROUP -> <<>>
    [] is_boundary(os[obj].type) -> <<>>
    [] OTHER -> print_simple_object(os, obj)

print_object(os, obj) ==
  CASE os[obj].type = POINT -> print_point(os, obj)
    [] os[obj].type = ARC -> print_arc(os, obj)
    [] os[obj].type = ELLIPSE -> print_ellipse(os, obj)
    [] os[obj].type = SPLINE -> print_spline(os, obj)
    [] os[obj].type = GROUP -> <<>>
    [] OTHER -> print_simple_object(os, obj)

print_object_physical(os, obj) ==
  IF ~is_entity(os[obj].type) THEN <<>>
  ELSE <<Statement("=", physical_type_names(os[obj].type), os[obj].id,
                   <<os[obj].id>>, "")>>

(* What each of the two loops of print_closure writes for the entities    *)
(* closure[lo..hi], in the order of the closure.                           *)
RECURSIVE PrintObjects(_, _, _, _), PrintObjectsPhysical(_, _, _, _)
PrintObjects(os, closure, lo, hi) ==
  IF lo > hi THEN <<>>
  ELSE IF lo = hi THEN print_object(os, closure[lo])
  ELSE PrintObjects(os, closure, lo, (lo + hi) \div 2)
         \o PrintObjects(os, closure, (lo + hi) \div 2 + 1, hi)

PrintObjectsPhysical(os, closure, lo, hi) ==
  IF lo > hi THEN <<>>
  ELSE IF lo = hi THEN print_object_physical(os, closure[lo])
  ELSE PrintObjectsPhysical(os, closure, lo, (lo + hi) \div 2)
         \o PrintObjectsPhysical(os, closure, (lo + hi) \div 2 + 1, hi)

(* What the two passes write to the file, and the heap after the call.     *)
print_closure_2(c1, c2) ==
  [objs |-> c2.objs, first |-> PrintObjects(c1.objs, c1.queue, 1, Len(c1.queue)),
   second |-> PrintObjectsPhysical(c2.objs, c2.queue, 1, Len(c2.queue))]

print_closure_1(c1, obj) == print_closure_2(c1, get_closure(c1.objs, obj, FALSE, TRUE))

print_closure(os, obj) == print_closure_1(get_closure(os, obj, TRUE, TRUE), obj)

----------------------------------------------------------------------------
(* The record of the most recent call.                                     *)
(* args: the arguments; ok: whether the call returned (FALSE: it aborted or *)
(* threw); ret: what it returned; aux: vectors local to the call that the  *)
(* properties below speak about; pre: the heap the call started from; n:   *)
(* how many calls have been recorded so far.                               *)
Idle ==
  [op |-> "none", args |-> <<>>, ok |-> TRUE, ret |-> <<>>, aux |-> <<>>, pre |-> <<>>,
   n |-> 0]

Call(op, args, ok, ret, aux, pre) ==
  [op |-> op, args |-> args, ok |-> ok, ret |-> ret, aux |-> aux, pre |-> pre,
   n |-> last.n + 1]

Ptrs == 1..Len(objs)

Dirs == {FORWARD, REVERSE}

NumEdges(os) ==
  LET n[i \in 0..Len(os)] ==
        IF i = 0 THEN 0
        ELSE n[i - 1] + Len(os[i].used) + Len(os[i].helpers) + Len(os[i].embedded)
  IN  n[Len(os)]

----------------------------------------------------------------------------
(* SpecGraph: a relation graph is wired with add_use / add_helper / embed  *)
(* on top of one Line between two Points, then get_closure or copy_closure *)
(* is called on it once.  The wiring calls take any two entities, as the   *)
(* code does, so the graph may be cyclic.                                  *)

(* How many relations the wiring calls may add to the initial Line.        *)
MaxEdges == 2

InitGraphWorld ==
  LET w1 == new_point3(World(<<>>, 0), <<1, 2, 3>>, 5)
      w2 == new_point2(w1, <<4, 5, 6>>)
  IN  new_line2(w2, 1, 2)

InitGraphEdges == NumEdges(InitGraphWorld.objs)

InitGraph ==
  /\ objs = InitGraphWorld.objs
  /\ next_id = InitGraphWorld.next_id
  /\ last = Idle

NoCallYet == last.op = "none"

AddUse ==
  \E by \in Ptrs, dir \in Dirs, of \in Ptrs :
    /\ NoCallYet
    /\ NumEdges(objs) < InitGraphEdges + MaxEdges
    /\ objs' = add_use(World(objs, next_id), by, dir, of).objs
    /\ UNCHANGED <<next_id, last>>

AddHelper ==
  \E to \in Ptrs, h \in Ptrs :
    /\ NoCallYet
    /\ NumEdges(objs) < InitGraphEdges + MaxEdges
    /\ objs' = add_helper(World(objs, next_id), to, h).objs
    /\ UNCHANGED <<next_id, last>>

Embed ==
  \E into \in Ptrs, e \in Ptrs :
    /\ NoCallYet
    /\ NumEdges(objs) < InitGraphEdges + MaxEdges
    /\ objs' = embed(World(objs, next_id), into, e).objs
    /\ UNCHANGED <<next_id, last>>

GetClosure ==
  \E obj \in Ptrs, h \in BOOLEAN, emb \in BOOLEAN :
    LET r == get_closure(objs, obj, h, emb)
    IN  /\ NoCallYet
        /\ objs' = r.objs
        /\ last' = Call("get_closure", <<obj, h, emb>>, TRUE, r.queue, <<>>, objs)
        /\ UNCHANGED next_id

CopyClosure ==
  \E obj \in Ptrs :
    LET r == copy_closure(World(objs, next_id), obj)
    IN  /\ NoCallYet
        /\ objs' = r.w.objs
        /\ next_id' = r.w.next_id
        /\ last' = Call("copy_closure", <<obj>>, r.ok, <<r.ret>>,
                        <<r.closure, r.out_closure>>, objs)

NextGraph == AddUse \/ AddHelper \/ Embed \/ GetClosure \/ CopyClosure

SpecGraph == InitGraph /\ [][NextGraph]_vars

----------------------------------------------------------------------------
(* SpecBoundary: a Group of two cells, each with its boundary aggregate    *)
(* (Volumes with Shells, or faces with Loops), over a few facets.  Uses of *)
(* the facets are added to the two aggregates in any order and with any    *)
(* orientation, then collect_assembly_boundary is called on the Group.     *)

(* How many facets there are and how many uses of them may be added.       *)
NFacets == 3
MaxSides == 3

FacetKind(cell_kind) == IF cell_kind = VOLUME THEN PLANE ELSE LINE

RECURSIVE NewObjects(_, _, _)
NewObjects(w, kind, n) ==
  CASE IsWorld(w) ->
      IF n = 0 THEN w ELSE NewObjects(new_object(w, kind), kind, n - 1)

(* The heap holds the facets first, then aggregate, cell, aggregate, cell, *)
(* then the Group.                                                         *)
NewCell2(w1, kind) ==
  CASE IsWorld(w1) ->
      add_use_top(new_object(w1, kind), FORWARD, Top(w1))

NewCell(w, kind) ==
  CASE IsWorld(w) ->
      NewCell2(new_object(w, get_boundary_type(kind)), kind)

InitBoundaryWorld(kind1, kind2) ==
  LET w1 == NewObjects(World(<<>>, 0), FacetKind(kind1), NFacets)
      w2 == NewCell(w1, kind1)
      w3 == NewCell(w2, kind2)
      w4 == new_group(w3)
  IN  add_to_group(add_to_group(w4, Top(w4), Top(w2)), Top(w4), Top(w3))

CellKinds == {<<VOLUME, VOLUME>>, <<PLANE, PLANE>>, <<PLANE, VOLUME>>}

InitBoundary ==
  \E k \in CellKinds :
    /\ objs = InitBoundaryWorld(k[1], k[2]).objs
    /\ next_id = InitBoundaryWorld(k[1], k[2]).next_id
    /\ last = Idle

Facets == 1..NFacets

Aggregates == {p \in Ptrs : is_boundary(objs[p].type)}

Groups == {p \in Ptrs : objs[p].type = GROUP}

AddSide ==
  \E agg \in Aggregates, dir \in Dirs, f \in Facets :
    /\ NoCallYet
    /\ NumEdges(objs) < NumEdges(InitBoundaryWorld(VOLUME, VOLUME).objs) + MaxSides
    /\ objs' = add_use(World(objs, next_id), agg, dir, f).objs
    /\ UNCHANGED <<next_id, last>>

CollectAssemblyBoundary ==
  \E g \in Groups :
    LET r == collect_assembly_boundary(World(objs, next_id), g)
    IN  /\ NoCallYet
        /\ objs' = r.w.objs
        /\ next_id' = r.w.next_id
        /\ last' = Call("collect_assembly_boundary", <<g>>, r.ok, <<r.ret>>, <<>>, objs)

NextBoundary == AddSide \/ CollectAssemblyBoundary

SpecBoundary == InitBoundary /\ [][NextBoundary]_vars

----------------------------------------------------------------------------
(* SpecLoop: a Loop over a simple oriented cycle of n curves through n     *)
(* points.  Curve i joins point i and point i+1 (cyclically); it is stored *)
(* either from i to i+1 and used Forward or from i+1 to i and used         *)
(* Reverse.  The uses are put in the Loop in any order.  Then              *)
(* unscramble_loop or extrude_loop2 is called on the Loop.                 *)

(* The most curves a Loop has.                                             *)
MaxCurves == 3

CurveKinds == {LINE, ARC, ELLIPSE, SPLINE}

Perms(n) == {f \in [1..n -> 1..n] : \A i, j \in 1..n : f[i] = f[j] => i = j}

PointPos(i) == <<i, i * i, 0>>

RECURSIVE NewPoints(_, _, _)
NewPoints(w, i, n) ==
  CASE IsWorld(w) ->
      IF i > n THEN w ELSE NewPoints(new_point2(w, PointPos(i)), i + 1, n)

(* A curve of the kind from point a to point b, with the helper points its *)
(* kind needs made just before it.                                         *)
NewCurve2(w2, kind, a, b) ==
  CASE IsWorld(w2) ->
      CASE kind = LINE -> new_line2(w2, a, b)
        [] kind = ARC -> new_arc2(w2, a, Top(w2), b)
        [] kind = ELLIPSE -> new_ellipse2(w2, a, Top(w2) - 1, Top(w2), b)
        [] kind = SPLINE -> new_spline2(w2, <<a, Top(w2) - 1, Top(w2), b>>)

NewCurve(w, kind, a, b) ==
  CASE IsWorld(w) ->
      CASE kind = LINE -> NewCurve2(w, kind, a, b)
        [] kind = ARC -> NewCurve2(new_point2(w, <<0, 0, 1>>), kind, a, b)
        [] kind \in {ELLIPSE, SPLINE} ->
             NewCurve2(new_point2(new_point2(w, <<0, 0, 1>>), <<0, 0, 2>>), kind, a, b)

(* Curves 1..n over the points 1..n; curves[i] is the pointer of curve i.  *)
RECURSIVE NewCycleCurves(_, _, _, _, _, _), NewCycleCurves2(_, _, _, _, _, _)
NewCycleCurves(w, i, n, kinds, dirs, curves) ==
  CASE IsWorld(w) ->
      IF i > n THEN [w |-> w, curves |-> curves]
      ELSE NewCycleCurves2(IF dirs[i] = FORWARD THEN NewCurve(w, kinds[i], i, (i % n) + 1)
                            ELSE NewCurve(w, kinds[i], (i % n) + 1, i),
                            i, n, kinds, dirs, curves)

NewCycleCurves2(w1, i, n, kinds, dirs, curves) ==
  CASE IsWorld(w1) ->
      NewCycleCurves(w1, i + 1, n, kinds, dirs, Append(curves, Top(w1)))

RECURSIVE AddUses(_, _, _)
AddUses(w, by, uses) ==
  CASE IsWorld(w) ->
      IF uses = <<>> THEN w
      ELSE AddUses(add_use(w, by, Head(uses).dir, Head(uses).obj), by, Tail(uses))

NewCycleLoop2(w1, n, dirs, perm, curves) ==
  CASE IsWorld(w1) ->
      AddUses(w1, Top(w1), [k \in 1..n |-> Use(dirs[perm[k]], curves[perm[k]])])

NewCycleLoop(w, n, kinds, dirs, perm) ==
  CASE IsWorld(w) ->
      LET c == NewCycleCurves(NewPoints(w, 1, n), 1, n, kinds, dirs, <<>>)
      IN  NewCycleLoop2(new_loop(c.w), n, dirs, perm, c.curves)

(* The first curve is of any kind, the others are Lines.                   *)
KindsOf(n, kind) == [i \in 1..n |-> IF i = 1 THEN kind ELSE LINE]

InitLoop ==
  \E n \in 1..MaxCurves :
    \E kind \in CurveKinds, dirs \in [1..n -> Dirs], perm \in Perms(n) :
      /\ objs = NewCycleLoop(World(<<>>, 0), n, KindsOf(n, kind), dirs, perm).objs
      /\ next_id = NewCycleLoop(World(<<>>, 0), n, KindsOf(n, kind), dirs, perm).next_id
      /\ last = Idle

Loops == {p \in Ptrs : objs[p].type = LOOP}

SweepVectors == {<<0, 0, 1>>}

UnscrambleLoop ==
  \E loop \in Loops :
    LET r == unscramble_loop(objs, loop)
    IN  /\ NoCallYet
        /\ objs' = r.objs
        /\ last' = Call("unscramble_loop", <<loop>>, ~r.diverges, <<>>, <<>>, objs)
        /\ UNCHANGED next_id

(* new_shell() followed by extrude_loop2 into that Shell.                  *)
ExtrudeLoop ==
  \E loop \in Loops, v \in SweepVectors, shell_dir \in Dirs :
    LET r == extrude_loop2(new_shell(World(objs, next_id)), loop, v,
                           Len(objs) + 1, shell_dir)
    IN  /\ NoCallYet
        /\ objs' = r.w.objs
        /\ next_id' = r.w.next_id
        /\ last' = Call("extrude_loop2", <<loop, v, Len(objs) + 1, shell_dir>>, r.ok,
                        <<r.middle, r.end>>, <<>>, new_shell(World(objs, next_id)).objs)

NextLoop == UnscrambleLoop \/ ExtrudeLoop

SpecLoop == InitLoop /\ [][NextLoop]_vars

----------------------------------------------------------------------------
(* SpecCubes: cubes are made by new_cube one above the other, one face of  *)
(* one cube may be welded into one face of another (or the same) with      *)
(* weld_volume_face_into, the cubes are put in a Group in the order they   *)
(* were made, and collect_assembly_boundary is called on the Group.        *)

(* How many cubes are made.                                                *)
MaxCubes == 2

Volumes == {p \in Ptrs : objs[p].type = VOLUME}

Faces == {p \in Ptrs : is_face(objs[p].type)}

NewCube ==
  LET r == new_cube(World(objs, next_id), <<0, 0, Cardinality(Volumes)>>,
                    <<1, 0, 0>>, <<0, 1, 0>>, <<0, 0, 1>>)
  IN  /\ last.op \in {"none", "new_cube"}
      /\ Cardinality(Volumes) < MaxCubes
      /\ objs' = r.w.objs
      /\ next_id' = r.w.next_id
      /\ last' = Call("new_cube", <<>>, r.ok, <<r.middle>>, <<>>, objs)

WeldVolumeFaceInto ==
  \E big_volume \in Volumes, small_volume \in Volumes,
     big_volume_face \in Faces, small_volume_face \in Faces :
    LET r == weld_volume_face_into(World(objs, next_id), big_volume, small_volume,
                                   big_volume_face, small_volume_face)
    IN  /\ last.op = "new_cube"
        /\ objs' = r.w.objs
        /\ next_id' = r.w.next_id
        /\ last' = Call("weld_volume_face_into",
                        <<big_volume, small_volume, big_volume_face, small_volume_face>>,
                        r.ok, <<>>, <<>>, objs)

RECURSIVE AddAllToGroup(_, _, _)
AddAllToGroup(w, group, members) ==
  CASE IsWorld(w) ->
      IF members = <<>> THEN w
      ELSE AddAllToGroup(add_to_group(w, group, Head(members)), group, Tail(members))

new_group_of(w, members) ==
  CASE IsWorld(w) ->
      AddAllToGroup(new_group(w), Len(w.objs) + 1, members)

(* The pointers of a set in increasing order.                              *)
RECURSIVE Sorted(_)
Sorted(S) ==
  IF S = {} THEN <<>>
  ELSE <<CHOOSE x \in S : \A y \in S : x <= y>>
       \o Sorted(S \ {CHOOSE x \in S : \A y \in S : x <= y})

(* new_group() followed by add_to_group for every cube.                    *)
GroupCubes ==
  /\ last.op \in {"new_cube", "weld_volume_face_into"}
  /\ last.ok
  /\ Volumes # {}
  /\ objs' = new_group_of(World(objs, next_id), Sorted(Volumes)).objs
  /\ next_id' = new_group_of(World(objs, next_id), Sorted(Volumes)).next_id
  /\ last' = Call("new_group", <<>>, TRUE, <<Len(objs) + 1>>, <<>>, objs)

CollectCubes ==
  \E g \in Groups :
    LET r == collect_assembly_boundary(World(objs, next_id), g)
    IN  /\ last.op = "new_group"
        /\ objs' = r.w.objs
        /\ next_id' = r.w.next_id
        /\ last' = Call("collect_assembly_boundary", <<g>>, r.ok, <<r.ret>>, <<>>, objs)

InitCubes ==
  /\ objs = <<>>
  /\ next_id = 0
  /\ last = Idle

NextCubes == NewCube \/ WeldVolumeFaceInto \/ GroupCubes \/ CollectCubes

SpecCubes == InitCubes /\ [][NextCubes]_vars

----------------------------------------------------------------------------
(* SpecOps: the operations that use scratch, called one after the other on *)
(* one heap.  The heap starts with a Group of two faces over two Points:   *)
(* curve c1 (of any kind) from point 1 to point 2 and Lines c2, c3 from    *)
(* point 2 to point 1; face A is bounded by (c1, c2), face B by (-c2, c3), *)
(* so the two faces share c2.  A Point is embedded in face A and face B    *)
(* has a hole bounded by one closed Line.  A call that aborts or throws    *)
(* ends the behaviour.                                                     *)

(* How many calls are made one after the other.                            *)
MaxCalls == 2

NewLoopOf(w, uses) ==
  CASE IsWorld(w) ->
      AddUses(new_loop(w), Len(w.objs) + 1, uses)

NewFaceOf(w, face_kind, loop) ==
  CASE IsWorld(w) ->
      IF face_kind = PLANE THEN new_plane2(w, loop) ELSE new_ruled2(w, loop)

NewEmbeddedPoint(w, face) == embed(new_point2(w, <<5, 5, 0>>), face, Len(w.objs) + 1)

add_hole_to_face(w, face, loop) == add_use(w, face, REVERSE, loop)

(* A closed Line on a new Point, alone in a Loop that becomes a hole.      *)
NewHole(w, face) ==
  CASE IsWorld(w) ->
      add_hole_to_face(
        NewLoopOf(new_line2(new_point2(w, <<7, 7, 0>>), Len(w.objs) + 1, Len(w.objs) + 1),
                  <<Use(FORWARD, Len(w.objs) + 2)>>),
        face, Len(w.objs) + 3)

(* c1 is the pointer of the first curve; the entities after it are made in *)
(* the order c2, c3, loop A, loop B, face A, face B, the rest.             *)
TwoFaces(w1, c1, face_kind) ==
  CASE IsWorld(w1) ->
      new_group_of(
        NewHole(
          NewEmbeddedPoint(
            NewFaceOf(
              NewFaceOf(
                NewLoopOf(
                  NewLoopOf(new_line2(new_line2(w1, 2, 1), 2, 1),
                            <<Use(FORWARD, c1), Use(FORWARD, c1 + 1)>>),
                  <<Use(REVERSE, c1 + 1), Use(FORWARD, c1 + 2)>>),
                face_kind, c1 + 3),
              PLANE, c1 + 4),
            c1 + 5),
          c1 + 6),
        <<c1 + 5, c1 + 6>>)

InitOpsWorld2(w1, face_kind) ==
  CASE IsWorld(w1) ->
      TwoFaces(w1, Top(w1), face_kind)

InitOpsWorld(kind, face_kind) ==
  InitOpsWorld2(NewCurve(NewPoints(World(<<>>, 0), 1, 2), kind, 1, 2), face_kind)

InitOps ==
  \E kind \in CurveKinds, face_kind \in {PLANE, RULED} :
    /\ objs = InitOpsWorld(kind, face_kind).objs
    /\ next_id = InitOpsWorld(kind, face_kind).next_id
    /\ last = Idle

CanCall == last.ok /\ last.n < MaxCalls

(* A rotation about the z axis.                                            *)
Linears == {<< <<0, -1, 0>>, <<1, 0, 0>>, <<0, 0, 1>> >>}

(* Every use of the entity is of an entity with at least n uses.           *)
UsesHave(os, p, n) == \A k \in 1..Len(os[p].used) : Len(os[os[p].used[k].obj].used) >= n

CallGetClosure ==
  \E obj \in Ptrs, h \in BOOLEAN, emb \in BOOLEAN :
    LET r == get_closure(objs, obj, h, emb)
    IN  /\ CanCall
        /\ objs' = r.objs
        /\ last' = Call("get_closure", <<obj, h, emb>>, TRUE, r.queue, <<>>, objs)
        /\ UNCHANGED next_id

CallCopyClosure ==
  \E obj \in Ptrs :
    LET r == copy_closure(World(objs, next_id), obj)
    IN  /\ CanCall
        /\ objs' = r.w.objs
        /\ next_id' = r.w.next_id
        /\ last' = Call("copy_closure", <<obj>>, r.ok, <<r.ret>>, <<>>, objs)

CallTransformClosure ==
  \E obj \in Ptrs, linear \in Linears, translation \in SweepVectors :
    /\ CanCall
    /\ objs' = transform_closure(objs, obj, linear, translation)
    /\ last' = Call("transform_closure", <<obj, linear, translation>>, TRUE, <<>>, <<>>,
                    objs)
    /\ UNCHANGED next_id

(* Every cell of the assembly has a boundary aggregate.                    *)
CallCollectAssemblyBoundary ==
  \E g \in Groups :
    LET r == collect_assembly_boundary(World(objs, next_id), g)
    IN  /\ CanCall
        /\ UsesHave(objs, g, 1)
        /\ objs' = r.w.objs
        /\ next_id' = r.w.next_id
        /\ last' = Call("collect_assembly_boundary", <<g>>, r.ok, <<r.ret>>, <<>>, objs)

(* The Loop has a first use and its uses are curves with two ends.         *)
CallUnscrambleLoop ==
  \E loop \in Loops :
    LET r == unscramble_loop(objs, loop)
    IN  /\ CanCall
        /\ objs[loop].used # <<>>
        /\ UsesHave(objs, loop, 2)
        /\ objs' = r.objs
        /\ last' = Call("unscramble_loop", <<loop>>, ~r.diverges, <<>>, <<>>, objs)
        /\ UNCHANGED next_id

CallExtrudeLoop ==
  \E loop \in Loops, v \in SweepVectors :
    LET r == extrude_loop(World(objs, next_id), loop, v)
    IN  /\ CanCall
        /\ UsesHave(objs, loop, 2)
        /\ objs' = r.w.objs
        /\ next_id' = r.w.next_id
        /\ last' = Call("extrude_loop", <<loop, v>>, r.ok, <<r.middle, r.end>>, <<>>, objs)

CallExtrudeFace ==
  \E face \in Faces, v \in SweepVectors :
    LET r == extrude_face(World(objs, next_id), face, v)
    IN  /\ CanCall
        /\ objs' = r.w.objs
        /\ next_id' = r.w.next_id
        /\ last' = Call("extrude_face", <<face, v>>, r.ok, <<r.middle, r.end>>, <<>>, objs)

CallExtrudeFaceGroup ==
  \E g \in Groups, v \in SweepVectors :
    LET r == extrude_face_group(World(objs, next_id), g, v)
    IN  /\ CanCall
        /\ objs' = r.w.objs
        /\ next_id' = r.w.next_id
        /\ last' = Call("extrude_face_group", <<g, v>>, r.ok, <<r.middle, r.end>>, <<>>,
                        objs)

(* The small face has an outer loop.                                       *)
CallWeldVolumeFaceInto ==
  \E big_volume \in Volumes, small_volume \in Volumes,
     big_volume_face \in Faces, small_volume_face \in Faces :
    LET r == weld_volume_face_into(World(objs, next_id), big_volume, small_volume,
                                   big_volume_face, small_volume_face)
    IN  /\ CanCall
        /\ objs[small_volume_face].used # <<>>
        /\ objs' = r.w.objs
        /\ next_id' = r.w.next_id
        /\ last' = Call("weld_volume_face_into",
                        <<big_volume, small_volume, big_volume_face, small_volume_face>>,
                        r.ok, <<>>, <<>>, objs)

CallWeldPlaneWithHolesInto ==
  \E big_volume \in Volumes, small_volume \in Volumes,
     big_volume_face \in Faces, small_volume_face \in Faces :
    LET r == weld_plane_with_holes_into(World(objs, next_id), big_volume, small_volume,
                                        big_volume_face, small_volume_face)
    IN  /\ CanCall
        /\ objs[small_volume_face].used # <<>>
        /\ objs' = r.w.objs
        /\ next_id' = r.w.next_id
        /\ last' = Call("weld_plane_with_holes_into",
                        <<big_volume, small_volume, big_volume_face, small_volume_face>>,
                        r.ok, <<>>, <<>>, objs)

(* The half shell is a Group of faces with loops whose boundary is not     *)
(* empty.                                                                  *)
HalfShells ==
  {g \in Groups :
     /\ \A k \in 1..Len(objs[g].used) : is_face(objs[objs[g].used[k].obj].type)
     /\ UsesHave(objs, g, 1)
     /\ \E k \in 1..Len(objs[g].used) :
          \E j \in 1..Len(objs[face_loop(objs, objs[g].used[k].obj)].used) :
            Cardinality({i \in 1..Len(objs[g].used) :
                           \E m \in 1..Len(objs[face_loop(objs, objs[g].used[i].obj)].used) :
                             objs[face_loop(objs, objs[g].used[i].obj)].used[m].obj =
                             objs[face_loop(objs, objs[g].used[k].obj)].used[j].obj}) = 1}

CallWeldHalfShellOnto ==
  \E volume \in Volumes, big_face \in Faces, half_shell \in HalfShells, dir \in Dirs :
    LET r == weld_half_shell_onto(World(objs, next_id), volume, big_face, half_shell, dir)
    IN  /\ CanCall
        /\ objs' = r.w.objs
        /\ next_id' = r.w.next_id
        /\ last' = Call("weld_half_shell_onto", <<volume, big_face, half_shell, dir>>,
                        r.ok, <<>>, <<>>, objs)

NextOps ==
  \/ CallGetClosure
  \/ CallCopyClosure
  \/ CallTransformClosure
  \/ CallCollectAssemblyBoundary
  \/ CallUnscrambleLoop
  \/ CallExtrudeLoop
  \/ CallExtrudeFace
  \/ CallExtrudeFaceGroup
  \/ CallWeldVolumeFaceInto
  \/ CallWeldPlaneWithHolesInto
  \/ CallWeldHalfShellOnto

SpecOps == InitOps /\ [][NextOps]_vars

----------------------------------------------------------------------------
(* SpecChain: a Loop over Lines drawn between a few Points with no regard  *)
(* to whether they close a cycle.  Each Line is stored from a Point to the *)
(* same or a later Point and is used once, in either direction.  Then      *)
(* unscramble_loop is called on the Loop.                                  *)

(* The most curves such a Loop has; there is one Point more.               *)
MaxChain == 2

ChainEnds == {e \in (1..(MaxChain + 1)) \X (1..(MaxChain + 1)) : e[1] <= e[2]}

RECURSIVE NewLines(_, _)
NewLines(w, ends) ==
  CASE IsWorld(w) ->
      IF ends = <<>> THEN w
      ELSE NewLines(new_line2(w, Head(ends)[1], Head(ends)[2]), Tail(ends))

(* The Points come first, then the Lines, then the Loop.                   *)
NewChainLoop(ends, dirs) ==
  AddUses(new_loop(NewLines(NewPoints(World(<<>>, 0), 1, MaxChain + 1), ends)),
          MaxChain + 1 + Len(ends) + 1,
          [k \in 1..Len(ends) |-> Use(dirs[k], MaxChain + 1 + k)])

InitChain ==
  \E m \in 1..MaxChain :
    \E ends \in [1..m -> ChainEnds], dirs \in [1..m -> Dirs] :
      /\ objs = NewChainLoop(ends, dirs).objs
      /\ next_id = NewChainLoop(ends, dirs).next_id
      /\ last = Idle

NextChain == UnscrambleLoop

SpecChain == InitChain /\ [][NextChain]_vars

----------------------------------------------------------------------------
(* SpecPrint: the heap of SpecOps after its Group of two faces was swept   *)
(* by extrude_face_group, so that it holds Points, curves, faces, Loops,   *)
(* Shells, Volumes and Groups; print_closure is called on any entity.      *)

InitPrintWorld2(w) ==
  CASE IsWorld(w) ->
      extrude_face_group(w, Top(w), <<0, 0, 1>>).w

InitPrintWorld(kind, face_kind) == InitPrintWorld2(InitOpsWorld(kind, face_kind))

InitPrint ==
  \E kind \in CurveKinds, face_kind \in {PLANE, RULED} :
    /\ objs = InitPrintWorld(kind, face_kind).objs
    /\ next_id = InitPrintWorld(kind, face_kind).next_id
    /\ last = Idle

PrintClosure ==
  \E obj \in Ptrs :
    LET r == print_closure(objs, obj)
    IN  /\ NoCallYet
        /\ objs' = r.objs
        /\ last' = Call("print_closure", <<obj>>, TRUE, <<r.first, r.second>>, <<>>, objs)
        /\ UNCHANGED next_id

NextPrint == PrintClosure

SpecPrint == InitPrint /\ [][NextPrint]_vars

----------------------------------------------------------------------------
(* SpecFace: one face whose outer Loop is a simple oriented cycle of n     *)
(* curves through n points, as in SpecLoop but with the uses in chain      *)
(* order, and which may have one hole: a Loop over a simple cycle of m     *)
(* Lines through m points of its own, used Reverse.  With m = 1 the hole   *)
(* is one Line closed on its point.  Then extrude_face is called on the    *)
(* face.                                                                   *)

(* The most curves the hole Loop has.                                      *)
MaxHole == 2

(* Lines 1..m over the points base+1..base+m; Line i is at base+m+i.       *)
RECURSIVE NewHoleLines(_, _, _, _, _)
NewHoleLines(w, base, i, m, dirs) ==
  CASE IsWorld(w) ->
      IF i > m THEN w
      ELSE NewHoleLines(IF dirs[i] = FORWARD
                          THEN new_line2(w, base + i, base + (i % m) + 1)
                          ELSE new_line2(w, base + (i % m) + 1, base + i),
                        base, i + 1, m, dirs)

NewHoleLoop(w, face, base, m, dirs) ==
  CASE IsWorld(w) ->
      add_hole_to_face(
        NewLoopOf(NewHoleLines(NewPoints(w, 1, m), base, 1, m, dirs),
                  [k \in 1..m |-> Use(dirs[k], base + m + k)]),
        face, base + 2 * m + 1)

NewFaceWithHole2(w1, m, hole_dirs) ==
  CASE IsWorld(w1) ->
      IF m = 0 THEN w1 ELSE NewHoleLoop(w1, Top(w1), Top(w1), m, hole_dirs)

Identity(n) == [k \in 1..n |-> k]

NewFaceWithHole(n, kind, dirs, face_kind, m, hole_dirs) ==
  NewFaceWithHole2(
    NewFaceOf(NewCycleLoop(World(<<>>, 0), n, KindsOf(n, kind), dirs, Identity(n)),
              face_kind,
              Top(NewCycleLoop(World(<<>>, 0), n, KindsOf(n, kind), dirs, Identity(n)))),
    m, hole_dirs)

InitFace ==
  \E n \in 1..MaxCurves, m \in 0..MaxHole :
    \E kind \in CurveKinds, dirs \in [1..n -> Dirs], face_kind \in {PLANE, RULED},
       hole_dirs \in [1..m -> Dirs] :
      /\ objs = NewFaceWithHole(n, kind, dirs, face_kind, m, hole_dirs).objs
      /\ next_id = NewFaceWithHole(n, kind, dirs, face_kind, m, hole_dirs).next_id
      /\ last = Idle

ExtrudeFace ==
  \E face \in Faces, v \in SweepVectors :
    LET r == extrude_face(World(objs, next_id), face, v)
    IN  /\ NoCallYet
        /\ objs' = r.w.objs
        /\ next_id' = r.w.next_id
        /\ last' = Call("extrude_face", <<face, v>>, r.ok, <<r.middle, r.end>>, <<>>, objs)

NextFace == ExtrudeFace

SpecFace == InitFace /\ [][NextFace]_vars

----------------------------------------------------------------------------
(* Reachability and acyclicity of a relation graph, by sets.               *)
SeqRange(s) == {s[i] : i \in 1..Len(s)}

Targets(os, p, h, emb) ==
  {os[p].used[i].obj : i \in 1..Len(os[p].used)}
    \cup (IF h THEN SeqRange(os[p].helpers) ELSE {})
    \cup (IF emb THEN SeqRange(os[p].embedded) ELSE {})

RECURSIVE ReachFrom(_, _, _, _)
ReachFrom(os, S, h, emb) ==
  LET N == S \cup UNION {Targets(os, p, h, emb) : p \in S}
  IN  IF N = S THEN S ELSE ReachFrom(os, N, h, emb)

Acyclic(os) ==
  \A p \in 1..Len(os) :
    p \notin ReachFrom(os, Targets(os, p, TRUE, TRUE), TRUE, TRUE)

Occurrences(s, x) == Cardinality({i \in 1..Len(s) : s[i] = x})

ClosureCalled == last.op = "get_closure" /\ Acyclic(last.pre)

(* C1: on an acyclic graph get_closure(e, h, emb) returns the root and     *)
(* every entity reachable from it through uses, helpers (iff h) and        *)
(* embedded (iff emb) exactly once each, and nothing else.                 *)
C1_ClosureIsReachableSet ==
  ClosureCalled =>
    LET R == ReachFrom(last.pre, {last.args[1]}, last.args[2], last.args[3])
    IN  /\ SeqRange(last.ret) = R
        /\ \A x \in R : Occurrences(last.ret, x) = 1

(* A closure of three entities one of which is referenced by the other     *)
(* two, and a closure that leaves out a helper because h is FALSE.         *)
C1_Witness ==
  /\ ClosureCalled
  /\ Len(last.ret) = 3
  /\ \E x \in SeqRange(last.ret) :
       Cardinality({p \in SeqRange(last.ret) :
                      x \in Targets(last.pre, p, last.args[2], last.args[3])}) = 2
  /\ \E p \in SeqRange(last.ret) : last.pre[p].embedded # <<>>
  /\ last.args[3]

(* C2: in the sequence get_closure returns on an acyclic graph, every      *)
(* entity that another one uses, has as helper or embeds (under the flags) *)
(* comes at a strictly smaller index than its referrer.                    *)
C2_ClosureIsTopological ==
  ClosureCalled =>
    \A i, j \in 1..Len(last.ret) :
      last.ret[j] \in Targets(last.pre, last.ret[i], last.args[2], last.args[3])
        => j < i

CopyReturned == last.op = "copy_closure" /\ last.ok /\ Acyclic(last.pre)

MapUses(us, m) == [k \in 1..Len(us) |-> Use(us[k].dir, m[us[k].obj])]

(* C4: the clones copy_closure makes are isomorphic to the closure of the  *)
(* original: same kind, same ordered uses with the same orientations, same *)
(* helpers and same embedded, each mapped to the clones; ids are fresh;    *)
(* cloned Points keep position and size.                                   *)
C4_CopyIsIsomorphic ==
  CopyReturned =>
    LET closure == last.aux[1]
        out     == last.aux[2]
        m       == [p \in SeqRange(closure) |->
                      out[CHOOSE i \in 1..Len(closure) : closure[i] = p]]
    IN  /\ Len(out) = Len(closure)
        /\ last.ret[1] = m[last.args[1]]
        /\ \A i, j \in 1..Len(out) : i # j => out[i] # out[j]
        /\ \A i \in 1..Len(out), q \in 1..Len(last.pre) :
             objs[out[i]].id # last.pre[q].id
        /\ \A p \in SeqRange(closure) :
             /\ objs[m[p]].type = last.pre[p].type
             /\ objs[m[p]].used = MapUses(last.pre[p].used, m)
             /\ SeqRange(objs[m[p]].helpers) = {m[x] : x \in SeqRange(last.pre[p].helpers)}
             /\ SeqRange(objs[m[p]].embedded) = {m[x] : x \in SeqRange(last.pre[p].embedded)}
             /\ objs[m[p]].pos = last.pre[p].pos
             /\ objs[m[p]].size = last.pre[p].size

BoundaryCollected == last.op = "collect_assembly_boundary" /\ last.ok

(* The uses of the boundary aggregates of the Group's cells, in order.     *)
CellBoundary(os, cell) == os[os[cell].used[1].obj].used

RECURSIVE AllSideUses(_, _)
AllSideUses(os, cell_uses) ==
  IF cell_uses = <<>> THEN <<>>
  ELSE CellBoundary(os, Head(cell_uses).obj) \o AllSideUses(os, Tail(cell_uses))

CellsUsing(os, g, f) ==
  {i \in 1..Len(os[g].used) :
     \E k \in 1..Len(CellBoundary(os, os[g].used[i].obj)) :
       CellBoundary(os, os[g].used[i].obj)[k].obj = f}

UsesOf(uses, f) == {k \in 1..Len(uses) : uses[k].obj = f}

(* C5 as stated: the new aggregate holds a use of facet f iff exactly one  *)
(* cell's boundary aggregate references f.                                 *)
C5_SurvivesIffInOneCell ==
  BoundaryCollected =>
    \A f \in 1..Len(last.pre) :
      (UsesOf(objs[last.ret[1]].used, f) # {})
        <=> (Cardinality(CellsUsing(last.pre, last.args[1], f)) = 1)

(* C5 amended: the new aggregate (Shell for Volumes, Loop for faces) holds *)
(* a use of facet f iff f has exactly one use among all the uses of the    *)
(* cells' boundary aggregates; the surviving uses keep their orientation   *)
(* and relative order, and each surviving facet appears once.              *)
C5_SurvivesIffUsedOnce ==
  BoundaryCollected =>
    LET all == AllSideUses(last.pre, last.pre[last.args[1]].used)
        new == objs[last.ret[1]]
        kept == {k \in 1..Len(all) : Cardinality(UsesOf(all, all[k].obj)) = 1}
    IN  /\ new.type = get_boundary_type(last.pre[last.pre[last.args[1]].used[1].obj].type)
        /\ \A f \in 1..Len(last.pre) :
             (UsesOf(new.used, f) # {}) <=> (Cardinality(UsesOf(all, f)) = 1)
        /\ \A f \in 1..Len(last.pre) : Cardinality(UsesOf(new.used, f)) <= 1
        /\ Len(new.used) = Cardinality(kept)
        /\ \A i \in 1..Len(new.used) :
             \E k \in kept :
               /\ new.used[i] = all[k]
               /\ Cardinality({k2 \in kept : k2 < k}) = i - 1

(* Two cells sharing one facet that is dropped, another facet that         *)
(* survives with Reverse orientation.                                      *)
C5_Witness ==
  /\ BoundaryCollected
  /\ \E f \in 1..Len(last.pre) :
       /\ Cardinality(CellsUsing(last.pre, last.args[1], f)) = 2
       /\ UsesOf(objs[last.ret[1]].used, f) = {}
  /\ \E i \in 1..Len(objs[last.ret[1]].used) : objs[last.ret[1]].used[i].dir = REVERSE

(* The endpoints of a curve-use, respecting its orientation.               *)
Leading(os, u) == edge_point(os, u.obj, u.dir)

Trailing(os, u) == edge_point(os, u.obj, 1 - u.dir)

IsCurve(os, p) == type_dims(os[p].type) = 1 /\ Len(os[p].used) = 2

Chained(os, uses) ==
  \A i \in 1..Len(uses) :
    Trailing(os, uses[i]) = Leading(os, uses[(i % Len(uses)) + 1])

(* A simple oriented cycle: the uses chain cyclically, over distinct       *)
(* curves, and no point is passed twice.                                   *)
SimpleCycle(os, uses) ==
  /\ Len(uses) >= 1
  /\ \A i \in 1..Len(uses) : IsCurve(os, uses[i].obj)
  /\ Chained(os, uses)
  /\ \A i, j \in 1..Len(uses) :
       i # j => /\ uses[i].obj # uses[j].obj
                /\ Leading(os, uses[i]) # Leading(os, uses[j])

PermutedSimpleCycle(os, uses) ==
  \E perm \in Perms(Len(uses)) :
    SimpleCycle(os, [k \in 1..Len(uses) |-> uses[perm[k]]])

UnscrambleCalled ==
  /\ last.op = "unscramble_loop"
  /\ PermutedSimpleCycle(last.pre, last.pre[last.args[1]].used)

(* C7: on a Loop whose uses are a permutation of a simple oriented cycle   *)
(* of n >= 1 curves, unscramble_loop terminates and leaves n uses that     *)
(* chain cyclically, start with the input's first use and are the input's  *)
(* uses as a set.                                                          *)
C7_UnscrambleChains ==
  UnscrambleCalled =>
    LET old == last.pre[last.args[1]].used
        new == objs[last.args[1]].used
    IN  /\ last.ok
        /\ Len(new) = Len(old)
        /\ Chained(objs, new)
        /\ new[1] = old[1]
        /\ SeqRange(new) = SeqRange(old)

(* A cycle of three curves, one of them used Reverse, given out of order.  *)
C7_Witness ==
  /\ UnscrambleCalled
  /\ last.ok
  /\ Len(last.pre[last.args[1]].used) = 3
  /\ ~Chained(last.pre, last.pre[last.args[1]].used)
  /\ \E i \in 1..3 : last.pre[last.args[1]].used[i].dir = REVERSE
  /\ \E i \in 1..3 : last.pre[last.args[1]].used[i].dir = FORWARD

LoopExtruded ==
  /\ last.op = "extrude_loop2"
  /\ PermutedSimpleCycle(last.pre, last.pre[last.args[1]].used)

IsNew(p) == p > Len(last.pre) /\ p <= Len(objs)

(* C8: extrude_loop2 on a simple closed cycle of n curve-uses appends n    *)
(* lateral faces to the Shell (Plane over a Line, Ruled otherwise), the    *)
(* i-th over the i-th curve and with orientation use_i.dir XOR shell_dir,  *)
(* and returns an end Loop of n new curves with the orientations of the    *)
(* original uses, the i-th joining the swept copies of the i-th curve's    *)
(* start and end points; one new end point per boundary point.             *)
C8_ExtrudeLoopWiring ==
  LoopExtruded =>
    LET pre   == last.pre
        uses  == pre[last.args[1]].used
        v     == last.args[2]
        shell == last.args[3]
        n     == Len(uses)
        base  == Len(pre[shell].used)
        lat   == [i \in 1..n |-> objs[shell].used[base + i]]
        endu  == objs[last.ret[2]].used
        pts   == {edge_point(pre, uses[i].obj, k) : i \in 1..n, k \in {0, 1}}
        ends  == {edge_point(objs, endu[i].obj, k) : i \in 1..n, k \in {0, 1}}
    IN  /\ last.ok
        /\ last.ret[1] = shell
        /\ Len(objs[shell].used) = base + n
        /\ SubSeq(objs[shell].used, 1, base) = pre[shell].used
        /\ \A i \in 1..n :
             /\ lat[i].dir = Xor(uses[i].dir, last.args[4])
             /\ IsNew(lat[i].obj)
             /\ objs[lat[i].obj].type =
                  (IF pre[uses[i].obj].type = LINE THEN PLANE ELSE RULED)
             /\ Len(objs[lat[i].obj].used) = 1
             /\ objs[objs[lat[i].obj].used[1].obj].used[1] = Use(FORWARD, uses[i].obj)
        /\ IsNew(last.ret[2])
        /\ objs[last.ret[2]].type = LOOP
        /\ Len(endu) = n
        /\ \A i \in 1..n :
             /\ endu[i].dir = uses[i].dir
             /\ IsNew(endu[i].obj)
             /\ objs[endu[i].obj].type = pre[uses[i].obj].type
             /\ Len(objs[endu[i].obj].used) = 2
             /\ \A k \in {0, 1} :
                  LET p == edge_point(pre, uses[i].obj, k)
                      q == edge_point(objs, endu[i].obj, k)
                  IN  /\ IsNew(q)
                      /\ objs[endu[i].obj].used[k + 1].dir = FORWARD
                      /\ objs[q].type = POINT
                      /\ objs[q].pos = VecAdd(pre[p].pos, v)
                      /\ objs[q].size = pre[p].size
        /\ \A i, j \in 1..n : i # j => endu[i].obj # endu[j].obj
        /\ \A i, j \in 1..n, k, l \in {0, 1} :
             (edge_point(pre, uses[i].obj, k) = edge_point(pre, uses[j].obj, l))
               <=> (edge_point(objs, endu[i].obj, k) = edge_point(objs, endu[j].obj, l))
        /\ Cardinality(ends) = Cardinality(pts)

(* Three curves, a Line and another kind among them, one used Reverse,     *)
(* swept into a Shell taken Reverse.                                       *)
C8_Witness ==
  /\ LoopExtruded
  /\ last.ok
  /\ Len(last.pre[last.args[1]].used) = 3
  /\ last.args[4] = REVERSE
  /\ \E i, j \in 1..3 :
       /\ last.pre[last.pre[last.args[1]].used[i].obj].type = LINE
       /\ last.pre[last.pre[last.args[1]].used[j].obj].type = ARC
       /\ last.pre[last.args[1]].used[i].dir = REVERSE
       /\ last.pre[last.args[1]].used[j].dir = FORWARD

----------------------------------------------------------------------------
(* C3: from a heap where every scratch is unset, after any sequence of     *)
(* calls of the operations of SpecOps that all returned, every entity, old *)
(* or new, has scratch unset again.                                        *)
C3_ScratchRestored == last.ok => \A p \in Ptrs : objs[p].scratch = UNSET

(* A weld of a half shell onto a Volume that an earlier sweep made.        *)
C3_Witness ==
  /\ last.op = "weld_half_shell_onto"
  /\ last.ok
  /\ last.n = 2
  /\ Len(objs) > Len(InitOpsWorld(LINE, PLANE).objs)

----------------------------------------------------------------------------
CubeFaces(os, cube) == {get_cube_face(os, cube, which) : which \in 0..5}

UseObjs(os, p) == {os[p].used[k].obj : k \in 1..Len(os[p].used)}

(* In the heap the small cube's face small_face is welded into big_face of *)
(* the big cube, and nothing else is.                                      *)
WeldedInto(os, big, small, big_face, small_face) ==
  /\ big # small
  /\ big_face \in CubeFaces(os, big)
  /\ small_face \in CubeFaces(os, small)
  /\ Len(os[volume_shell(os, big)].used) = 7
  /\ os[volume_shell(os, big)].used[7].obj = small_face
  /\ Len(os[volume_shell(os, small)].used) = 6
  /\ os[big_face].used[Len(os[big_face].used)] = Use(REVERSE, face_loop(os, small_face))
  /\ \A f \in (CubeFaces(os, big) \cup CubeFaces(os, small)) \ {big_face} :
       Len(os[f].used) = 1

(* The boundary of the Group of two cubes one of which was welded into the *)
(* other has been collected.                                               *)
WeldedCubesCollected(big, small, big_face, small_face) ==
  /\ UseObjs(last.pre, last.args[1]) = {big, small}
  /\ Len(last.pre[last.args[1]].used) = 2
  /\ WeldedInto(last.pre, big, small, big_face, small_face)

BoundaryCollectedOf == last.op = "collect_assembly_boundary"

VolumesOf(os) == {p \in 1..Len(os) : os[p].type = VOLUME}

(* C6 as stated: the Shell collected from two welded cubes has exactly 10  *)
(* face uses.                                                              *)
C6_WeldedCubesHaveTenFaces ==
  BoundaryCollectedOf =>
    \A big, small \in VolumesOf(last.pre) :
      \A big_face \in CubeFaces(last.pre, big), small_face \in CubeFaces(last.pre, small) :
        WeldedCubesCollected(big, small, big_face, small_face) =>
          /\ last.ok
          /\ objs[last.ret[1]].type = SHELL
          /\ Len(objs[last.ret[1]].used) = 10

(* C6 as the code has it: the Shell has exactly 11 face uses, the 13 uses  *)
(* of the two Shells without the two uses of small_face; big_face, which   *)
(* only the big cube's Shell uses, is among them.                          *)
C6_WeldedCubesHaveElevenFaces ==
  BoundaryCollectedOf =>
    \A big, small \in VolumesOf(last.pre) :
      \A big_face \in CubeFaces(last.pre, big), small_face \in CubeFaces(last.pre, small) :
        WeldedCubesCollected(big, small, big_face, small_face) =>
          /\ last.ok
          /\ objs[last.ret[1]].type = SHELL
          /\ Len(objs[last.ret[1]].used) = 11
          /\ UseObjs(objs, last.ret[1]) =
               (CubeFaces(last.pre, big) \cup CubeFaces(last.pre, small)) \ {small_face}
          /\ big_face \in UseObjs(objs, last.ret[1])

(* The boundary of two cubes after the top of one was welded into the      *)
(* bottom of the other.                                                    *)
C6_Witness ==
  /\ BoundaryCollectedOf
  /\ last.ok
  /\ \E big, small \in VolumesOf(last.pre) :
       WeldedCubesCollected(big, small, get_cube_face(last.pre, big, 0),
                            get_cube_face(last.pre, small, 1))

----------------------------------------------------------------------------
(* A face or a Group of faces has been swept.                              *)
FacesExtruded == last.op \in {"extrude_face", "extrude_face_group"} /\ last.ok

(* The Points (dim = 0) or curves (dim = 1) in the uses+embedded closure   *)
(* of the input.                                                           *)
Swept(dim) ==
  {p \in ReachFrom(last.pre, {last.args[1]}, FALSE, TRUE) :
     type_dims(last.pre[p].type) = dim}

NewOfDim(dim) == {p \in Ptrs : IsNew(p) /\ type_dims(objs[p].type) = dim}

(* The new Lines that start at the Point.                                  *)
LateralLines(p) ==
  {l \in NewOfDim(1) : objs[l].type = LINE /\ objs[l].used[1] = Use(FORWARD, p)}

(* The new faces whose Loop starts with the curve.                         *)
LateralSurfaces(e) ==
  {f \in NewOfDim(2) :
     /\ objs[f].used # <<>>
     /\ objs[face_loop(objs, f)].used # <<>>
     /\ objs[face_loop(objs, f)].used[1] = Use(FORWARD, e)}

EndPointOf(p) == objs[CHOOSE l \in LateralLines(p) : TRUE].used[2].obj

LateralLoopOf(e) == objs[face_loop(objs, CHOOSE f \in LateralSurfaces(e) : TRUE)].used

EndCurveOf(e) == LateralLoopOf(e)[3].obj

(* The curves in the Loops of a face.                                      *)
CurvesOf(os, face) == UNION {UseObjs(os, l) : l \in UseObjs(os, face)}

(* C9: extrude_face_group and extrude_face sweep every Point and every     *)
(* curve of the uses+embedded closure of the input exactly once: one end   *)
(* point and one lateral line per Point, one end curve and one lateral     *)
(* surface per curve, and no other new curve.  Two faces of the group that *)
(* share a curve get Volumes whose Shells use the same lateral surface and *)
(* end faces whose Loops use the same end curve.                           *)
C9_SweptOnce ==
  FacesExtruded =>
    /\ \A p \in Swept(0) :
         /\ Cardinality(LateralLines(p)) = 1
         /\ IsNew(EndPointOf(p))
         /\ objs[EndPointOf(p)].type = POINT
    /\ \A p, q \in Swept(0) : p # q => EndPointOf(p) # EndPointOf(q)
    /\ \A e \in Swept(1) :
         /\ Cardinality(LateralSurfaces(e)) = 1
         /\ Len(LateralLoopOf(e)) = 4
         /\ IsNew(EndCurveOf(e))
         /\ objs[EndCurveOf(e)].type = last.pre[e].type
         /\ \A k \in {0, 1} :
              edge_point(objs, EndCurveOf(e), k) = EndPointOf(edge_point(last.pre, e, k))
    /\ \A e, g \in Swept(1) : e # g => EndCurveOf(e) # EndCurveOf(g)
    /\ Cardinality(NewOfDim(1)) = Cardinality(Swept(0)) + Cardinality(Swept(1))
    /\ last.op = "extrude_face_group" =>
         LET faces   == last.pre[last.args[1]].used
             volumes == objs[last.ret[1]].used
             ends    == objs[last.ret[2]].used
         IN  /\ Len(volumes) = Len(faces)
             /\ Len(ends) = Len(faces)
             /\ \A i, j \in 1..Len(faces) :
                  \A e \in CurvesOf(last.pre, faces[i].obj)
                             \cap CurvesOf(last.pre, faces[j].obj) :
                    /\ LateralSurfaces(e) \subseteq
                         UseObjs(objs, volume_shell(objs, volumes[i].obj))
                           \cap UseObjs(objs, volume_shell(objs, volumes[j].obj))
                    /\ EndCurveOf(e) \in
                         CurvesOf(objs, ends[i].obj) \cap CurvesOf(objs, ends[j].obj)

(* The Group of the two faces that share a Line has been swept.            *)
C9_Witness ==
  /\ FacesExtruded
  /\ last.op = "extrude_face_group"
  /\ Len(last.pre[last.args[1]].used) = 2
  /\ \E e \in Swept(1) :
       /\ e \in CurvesOf(last.pre, last.pre[last.args[1]].used[1].obj)
       /\ e \in CurvesOf(last.pre, last.pre[last.args[1]].used[2].obj)
       /\ last.pre[last.pre[last.args[1]].used[1].obj].type = PLANE
       /\ last.pre[last.pre[last.args[1]].used[2].obj].type = PLANE
       /\ LateralSurfaces(e) \subseteq
            UseObjs(objs, volume_shell(objs, objs[last.ret[1]].used[1].obj))
              \cap UseObjs(objs, volume_shell(objs, objs[last.ret[1]].used[2].obj))

----------------------------------------------------------------------------
WeldCalled == last.op = "weld_volume_face_into"

(* small_volume_face is used by small_volume's Shell.                      *)
WeldPrecondition ==
  \E k \in 1..Len(last.pre[volume_shell(last.pre, last.args[2])].used) :
    last.pre[volume_shell(last.pre, last.args[2])].used[k].obj = last.args[4]

(* The orientation of the first use of the entity in the uses.             *)
FirstDir(uses, p) ==
  uses[CHOOSE k \in 1..Len(uses) :
         uses[k].obj = p /\ \A j \in 1..(k - 1) : uses[j].obj # p].dir

(* C10: weld_volume_face_into appends one Reverse use of small_face's      *)
(* first loop to big_face and one use of small_face to big_volume's Shell, *)
(* oriented against small_face's first use in small_volume's Shell, so the *)
(* two Shells use small_face with opposite orientations; nothing else in   *)
(* the graph changes.                                                      *)
C10_WeldFrame ==
  (WeldCalled /\ WeldPrecondition) =>
    LET pre         == last.pre
        big_shell   == volume_shell(pre, last.args[1])
        small_shell == volume_shell(pre, last.args[2])
        big_face    == last.args[3]
        small_face  == last.args[4]
        dir         == FirstDir(pre[small_shell].used, small_face)
    IN  /\ last.ok
        /\ Len(objs) = Len(pre)
        /\ objs[big_face].used =
             Append(pre[big_face].used, Use(REVERSE, pre[small_face].used[1].obj))
        /\ objs[big_shell].used = Append(pre[big_shell].used, Use(Not(dir), small_face))
        /\ \E k \in 1..Len(objs[small_shell].used),
              m \in 1..Len(objs[big_shell].used) :
             /\ objs[small_shell].used[k].obj = small_face
             /\ objs[big_shell].used[m].obj = small_face
             /\ objs[small_shell].used[k].dir # objs[big_shell].used[m].dir
        /\ \A p \in 1..Len(pre) :
             /\ p \notin {big_face, big_shell} => objs[p].used = pre[p].used
             /\ objs[p].helpers = pre[p].helpers
             /\ objs[p].embedded = pre[p].embedded
             /\ objs[p].type = pre[p].type
             /\ objs[p].scratch = pre[p].scratch

(* A face of one cube welded into a face of the other.                     *)
C10_Witness ==
  /\ WeldCalled
  /\ WeldPrecondition
  /\ last.ok
  /\ last.args[1] # last.args[2]
  /\ last.args[3] \in CubeFaces(last.pre, last.args[1])
  /\ last.args[4] \in CubeFaces(last.pre, last.args[2])

----------------------------------------------------------------------------
NonCycleUnscrambled ==
  /\ last.op = "unscramble_loop"
  /\ ~PermutedSimpleCycle(last.pre, last.pre[last.args[1]].used)

(* C11: unscramble_loop called on a Loop whose uses are not one simple     *)
(* closed cycle does not run for ever: the call comes to an end.           *)
C11_NonCycleTerminates == NonCycleUnscrambled => last.ok

----------------------------------------------------------------------------
ClosurePrinted == last.op = "print_closure"

(* The "=" statements of the first pass.                                   *)
Definitions == SelectSeq(last.ret[1], LAMBDA st : st.op = "=")

(* The entities of the helpers+embedded closure of the printed root.       *)
Printed == ReachFrom(last.pre, {last.args[1]}, TRUE, TRUE)

DefinitionsOf(p) ==
  {k \in 1..Len(Definitions) :
     /\ Definitions[k].id = last.pre[p].id
     /\ Definitions[k].name = type_names(last.pre[p].type)}

(* C12 as stated: the first pass of print_closure has one definition       *)
(* statement per Point, curve, face and Volume of the helpers+embedded     *)
(* closure and none for Groups, Loops and Shells.                          *)
C12_NoStatementForAggregates ==
  ClosurePrinted =>
    /\ \A p \in Printed :
         Cardinality(DefinitionsOf(p)) = (IF is_entity(last.pre[p].type) THEN 1 ELSE 0)
    /\ Len(Definitions) = Cardinality({p \in Printed : is_entity(last.pre[p].type)})

(* C12 as the code has it: one definition statement per entity of the      *)
(* closure that is not a Group, Loops ("Line Loop") and Shells ("Surface   *)
(* Loop") included, and none for Groups.                                   *)
C12_StatementForAllButGroups ==
  ClosurePrinted =>
    /\ \A p \in Printed :
         Cardinality(DefinitionsOf(p)) = (IF last.pre[p].type # GROUP THEN 1 ELSE 0)
    /\ Len(Definitions) = Cardinality({p \in Printed : last.pre[p].type # GROUP})

(* A Group of Volumes is printed: its closure has every kind of entity.    *)
C12_Witness ==
  /\ ClosurePrinted
  /\ last.pre[last.args[1]].type = GROUP
  /\ \A t \in {POINT, LINE, ARC, PLANE, RULED, VOLUME, LOOP, SHELL} :
       \E p \in Printed : last.pre[p].type = t
  /\ \E k \in 1..Len(Definitions) : Definitions[k].name = "Surface Loop"

----------------------------------------------------------------------------
(* C14: on every acyclic graph and for every root, copy_closure runs to    *)
(* its end: no helper or use target of an entity of the closure has a      *)
(* scratch index that is not below the entity's own, so neither assertion  *)
(* idx < co->scratch fails.                                                *)
C14_CopyAssertionHolds ==
  (last.op = "copy_closure" /\ Acyclic(last.pre)) => last.ok

----------------------------------------------------------------------------
(* C15: on any graph, cyclic ones included, get_closure returns every      *)
(* entity reachable from the root, the root too, exactly once.             *)
C15_ClosureOnceOnAnyGraph ==
  last.op = "get_closure" =>
    LET R == ReachFrom(last.pre, {last.args[1]}, last.args[2], last.args[3])
    IN  /\ SeqRange(last.ret) = R
        /\ \A x \in R : Occurrences(last.ret, x) = 1

----------------------------------------------------------------------------
FaceExtruded == last.op = "extrude_face" /\ last.ok

(* Every Loop of the face is a chain of curves that closes.                *)
ValidLoops(os, face) ==
  \A k \in 1..Len(os[face].used) :
    /\ os[face].used[k].dir = (IF k = 1 THEN FORWARD ELSE REVERSE)
    /\ os[os[face].used[k].obj].used # <<>>
    /\ \A u \in SeqRange(os[os[face].used[k].obj].used) : IsCurve(os, u.obj)
    /\ Chained(os, os[os[face].used[k].obj].used)

LateralSurfaceOf(e) == CHOOSE f \in LateralSurfaces(e) : TRUE

(* The lateral uses of the Shell, loop-use after loop-use from the k-th.   *)
RECURSIVE LateralUsesOf(_, _)
LateralUsesOf(loops, k) ==
  IF k > Len(loops) THEN <<>>
  ELSE [i \in 1..Len(last.pre[loops[k].obj].used) |->
          Use(Xor(last.pre[loops[k].obj].used[i].dir, loops[k].dir),
              LateralSurfaceOf(last.pre[loops[k].obj].used[i].obj))]
       \o LateralUsesOf(loops, k + 1)

EndLoopUsesOf(loop) ==
  [i \in 1..Len(last.pre[loop].used) |->
     Use(last.pre[loop].used[i].dir, EndCurveOf(last.pre[loop].used[i].obj))]

(* C13: extrude_face on a Plane or Ruled face with valid Loops returns a   *)
(* new Volume that uses one new Shell, Forward; the Shell uses the face    *)
(* Reverse, the end face Forward, then for each loop-use of the face in    *)
(* order the lateral surface of each curve-use with orientation curve dir  *)
(* XOR loop dir.  The end face is new, of the kind of the face, and uses   *)
(* one new Loop per Loop of the face, in the same order with the same      *)
(* orientation, over the end curves of the Loop's curves.                  *)
C13_ExtrudeFaceLayout ==
  (FaceExtruded /\ ValidLoops(last.pre, last.args[1])) =>
    LET face   == last.args[1]
        volume == last.ret[1]
        end    == last.ret[2]
        loops  == last.pre[last.args[1]].used
        shell  == volume_shell(objs, last.ret[1])
    IN  /\ is_face(last.pre[face].type)
        /\ IsNew(volume)
        /\ objs[volume].type = VOLUME
        /\ objs[volume].used = <<Use(FORWARD, shell)>>
        /\ IsNew(shell)
        /\ objs[shell].type = SHELL
        /\ \A e \in CurvesOf(last.pre, face) : Cardinality(LateralSurfaces(e)) = 1
        /\ objs[shell].used =
             <<Use(REVERSE, face), Use(FORWARD, end)>> \o LateralUsesOf(loops, 1)
        /\ IsNew(end)
        /\ objs[end].type = last.pre[face].type
        /\ Len(objs[end].used) = Len(loops)
        /\ \A k \in 1..Len(loops) :
             /\ objs[end].used[k].dir = loops[k].dir
             /\ IsNew(objs[end].used[k].obj)
             /\ objs[objs[end].used[k].obj].type = LOOP
             /\ objs[objs[end].used[k].obj].used = EndLoopUsesOf(loops[k].obj)
        /\ \A j, k \in 1..Len(loops) :
             j # k => objs[end].used[j].obj # objs[end].used[k].obj

(* The face with a hole and a reversed curve-use has been swept: its Shell *)
(* has the two faces and three lateral surfaces, two of them Reverse.      *)
C13_Witness ==
  /\ FaceExtruded
  /\ ValidLoops(last.pre, last.args[1])
  /\ Len(last.pre[last.args[1]].used) = 2
  /\ last.pre[last.pre[last.args[1]].used[1].obj].used[1].dir = REVERSE
  /\ Len(objs[volume_shell(objs, last.ret[1])].used) = 5
  /\ objs[volume_shell(objs, last.ret[1])].used[3].dir = REVERSE
  /\ objs[volume_shell(objs, last.ret[1])].used[4].dir = FORWARD
  /\ objs[volume_shell(objs, last.ret[1])].used[5].dir = REVERSE

----------------------------------------------------------------------------
(* The curve-uses on a Shell: <<i, j, k>> is the k-th curve-use of the     *)
(* j-th loop-use of the i-th face-use.                                     *)
FaceAt(os, shell, i) == os[shell].used[i].obj

LoopAt(os, shell, i, j) == os[FaceAt(os, shell, i)].used[j].obj

CurveUsesOn(os, shell) ==
  UNION {UNION {{<<i, j, k>> : k \in 1..Len(os[LoopAt(os, shell, i, j)].used)} :
                  j \in 1..Len(os[FaceAt(os, shell, i)].used)} :
           i \in 1..Len(os[shell].used)}

CurveAt(os, shell, t) == os[LoopAt(os, shell, t[1], t[2])].used[t[3]].obj

(* shell-use dir XOR loop-use dir XOR curve-use dir.                       *)
EffectiveDir(os, shell, t) ==
  Xor(Xor(os[shell].used[t[1]].dir, os[FaceAt(os, shell, t[1])].used[t[2]].dir),
      os[LoopAt(os, shell, t[1], t[2])].used[t[3]].dir)

UsesOfCurve(os, shell, c) == {t \in CurveUsesOn(os, shell) : CurveAt(os, shell, t) = c}

CurvesOn(os, shell) == {CurveAt(os, shell, t) : t \in CurveUsesOn(os, shell)}

PointsOf(os, loop) ==
  UNION {{edge_point(os, c, 0), edge_point(os, c, 1)} : c \in UseObjs(os, loop)}

(* The Loops of the face are simple oriented cycles, the outer one Forward *)
(* and the holes Reverse, and no two of them meet in a point.              *)
SimpleFace(os, face) ==
  /\ ValidLoops(os, face)
  /\ \A k \in 1..Len(os[face].used) : SimpleCycle(os, os[os[face].used[k].obj].used)
  /\ \A j, k \in 1..Len(os[face].used) :
       j # k => PointsOf(os, os[face].used[j].obj)
                  \cap PointsOf(os, os[face].used[k].obj) = {}

SimpleFaceExtruded == FaceExtruded /\ SimpleFace(last.pre, last.args[1])

NewShell == volume_shell(objs, last.ret[1])

(* The curve has two uses on the Shell, of opposite effective orientation. *)
TwoOppositeUses(c) ==
  /\ Cardinality(UsesOfCurve(objs, NewShell, c)) = 2
  /\ \A t, u \in UsesOfCurve(objs, NewShell, c) :
       t # u => EffectiveDir(objs, NewShell, t) # EffectiveDir(objs, NewShell, u)

(* The uses of the curve on the Shell are in different faces.              *)
InDifferentFaces(c) ==
  \A t, u \in UsesOfCurve(objs, NewShell, c) :
    t # u => FaceAt(objs, NewShell, t[1]) # FaceAt(objs, NewShell, u[1])

IsClosed(os, e) == edge_point(os, e, 0) = edge_point(os, e, 1)

LateralLineOf(p) == CHOOSE l \in LateralLines(p) : TRUE

(* The curve is the lateral line of the one point of a curve of the face   *)
(* that is closed on itself, and its uses are in that curve's lateral      *)
(* surface.                                                                *)
IsSeam(c) ==
  \E e \in CurvesOf(last.pre, last.args[1]) :
    /\ IsClosed(last.pre, e)
    /\ c = LateralLineOf(edge_point(last.pre, e, 0))
    /\ \A t \in UsesOfCurve(objs, NewShell, c) :
         FaceAt(objs, NewShell, t[1]) = LateralSurfaceOf(e)

(* Every lateral Loop is (edge, right lateral line, end curve reversed,    *)
(* left lateral line reversed) and chains cyclically.                      *)
LateralLoopsChained ==
  \A e \in CurvesOf(last.pre, last.args[1]) :
    /\ Cardinality(LateralSurfaces(e)) = 1
    /\ LateralSurfaceOf(e) \in UseObjs(objs, NewShell)
    /\ LateralLoopOf(e) =
         <<Use(FORWARD, e),
           Use(FORWARD, LateralLineOf(edge_point(last.pre, e, 1))),
           Use(REVERSE, EndCurveOf(e)),
           Use(REVERSE, LateralLineOf(edge_point(last.pre, e, 0)))>>
    /\ IsNew(EndCurveOf(e))
    /\ Chained(objs, LateralLoopOf(e))

(* C16 as stated: after extrude_face on a face whose Loops are simple      *)
(* oriented cycles, every curve on the Shell of the Volume is used by      *)
(* exactly two faces of the Shell, with opposite effective orientations    *)
(* (shell-use dir XOR loop-use dir XOR curve-use dir), and every lateral   *)
(* Loop is a chained cycle.                                                *)
C16_CurvesInTwoFaces ==
  SimpleFaceExtruded =>
    /\ \A c \in CurvesOn(objs, NewShell) : TwoOppositeUses(c) /\ InDifferentFaces(c)
    /\ LateralLoopsChained

(* C16 as the code has it: every curve on the Shell has exactly two uses   *)
(* on the Shell, with opposite effective orientations; the two uses are in *)
(* two faces, except for the lateral line of a curve closed on itself,     *)
(* which is twice in that curve's lateral Loop; and every lateral Loop is  *)
(* a chained cycle.                                                        *)
C16_CurvesUsedTwice ==
  SimpleFaceExtruded =>
    /\ \A c \in CurvesOn(objs, NewShell) :
         /\ TwoOppositeUses(c)
         /\ InDifferentFaces(c) \/ IsSeam(c)
         /\ IsSeam(c) => ~InDifferentFaces(c)
    /\ LateralLoopsChained

(* A face with three curves in its outer Loop, one of them stored against  *)
(* the Loop, and a hole of one closed Line has been swept: the Shell has   *)
(* the two faces and four lateral surfaces, and the hole's lateral line is *)
(* a seam.                                                                 *)
C16_Witness ==
  /\ SimpleFaceExtruded
  /\ Len(last.pre[last.args[1]].used) = 2
  /\ Len(last.pre[last.pre[last.args[1]].used[1].obj].used) = 3
  /\ \E u \in SeqRange(last.pre[last.pre[last.args[1]].used[1].obj].used) : u.dir = REVERSE
  /\ Len(objs[NewShell].used) = 6
  /\ \E c \in CurvesOn(objs, NewShell) : IsSeam(c)
  /\ \E c \in CurvesOn(objs, NewShell) : InDifferentFaces(c) /\ objs[c].type = ARC

====
